---- MODULE Spec2Model ----
(***************************************************************************)
(* A model of the SmartTestHub test tooling:                               *)
(*   - AlgorandTestRunner.run_tests and the stages it drives               *)
(*     (Containers/non-evm-algorand/src/utils/test_runner.py), with the    *)
(*     suite AlgorandTestGenerator writes (utils/test_generator.py);       *)
(*   - the StarkNet test generator                                         *)
(*     (Containers/non-evm-starknet/scripts/generate_starknet_tests.py).   *)
(* Texts are sequences of tokens; a generated suite is the sequence of the *)
(* text blocks the generator concatenates.                                 *)
(***************************************************************************)
EXTENDS Integers, Sequences, FiniteSets, TLC

VARIABLES
    pc,          \* position of run_tests: the stage to execute next, or its end
    log,         \* entries written through self.logger, oldest first
    trace,       \* the stages executed so far, each with what the environment did
    propagated,  \* the exception run_tests raised to its caller (NoExc: none)
    executed,    \* pytest pass -> the tests that pass executed
    files,       \* the artifacts written under output_dir
    testFile,    \* the content of the generated test file (NoSuite: not written)
    contract_name, \* AlgorandTestRunner.contract_name
    gpc,         \* position of the StarkNet generator's main()
    file,        \* the input contract file: whether it can be read, and its text
    stem,        \* contract_name of main(): Path(contract_path).stem
    functions,   \* the list parse_functions returned
    features,    \* the mapping analyze_contract_features returned
    output,      \* the text main() has built so far, as its blocks
    written,     \* the content of the output file (<<>>: not written)
    argc,        \* len(sys.argv) of the generator process
    exit_status, \* exit status of the generator process ("none": still running)
    stdout,      \* the lines main() and its callees printed
    reads,       \* number of times the input contract has been read
    tpc,         \* pytest session over test_template.py: index of the next test
    world,       \* what that session runs against: environment, contract, devnet
    cache,       \* class-scoped fixture -> its cached result
    report,      \* test -> the outcome pytest reports for it
    network,     \* the calls made on the algod client, oldest first
    loaded,      \* the paths import_contract tried to load, oldest first
    disk,        \* upload service: the files written so far, as resolved paths
    responses,   \* upload service: the requests handled so far, oldest first
    runners,     \* the AlgorandTestRunner instances of one process: their output_dir
    handlers,    \* the handlers of logging.getLogger('algorand_test'), in order
    logfiles,    \* output_dir -> the records written to its test.log
    console,     \* the records written to the console
    sent,        \* number of messages logged so far
    apc,         \* argument generation: the function to call next
    args_input, \* the argument text of a declaration
    mock_args,   \* what generate_function_args returned
    call_args,   \* what generate_call_args returned
    spc,         \* generated suite run: the step to take next
    instance,    \* the contract the generated tests deploy and call
    generated,   \* the blocks the generator emitted for one function
    selected,    \* the index of the block whose test runs
    attempts,    \* the deployment shapes the contract fixture tried
    contract_fixture, \* what the contract fixture gave the test
    verdict      \* the outcome pytest reports for the test

runnerVars == <<pc, log, trace, propagated, executed, files, testFile, contract_name>>

genVars == <<gpc, file, stem, functions, features, output, written, argc, exit_status, stdout, reads>>

tmplVars == <<tpc, world, cache, report, network, loaded>>

uploadVars == <<disk, responses>>

loggingVars == <<runners, handlers, logfiles, console, sent>>

argsVars == <<apc, args_input, mock_args, call_args>>

suiteVars == <<spc, instance, generated, selected, attempts, contract_fixture, verdict>>

\* the variables of the other programs, which a program leaves alone
nonRunnerVars == <<genVars, tmplVars, uploadVars, loggingVars, argsVars, suiteVars>>

nonGenVars == <<runnerVars, tmplVars, uploadVars, loggingVars, argsVars, suiteVars>>

nonTmplVars == <<runnerVars, genVars, uploadVars, loggingVars, argsVars, suiteVars>>

nonUploadVars == <<runnerVars, genVars, tmplVars, loggingVars, argsVars, suiteVars>>

nonLoggingVars == <<runnerVars, genVars, tmplVars, uploadVars, argsVars, suiteVars>>

nonArgsVars == <<runnerVars, genVars, tmplVars, uploadVars, loggingVars, suiteVars>>

nonSuiteVars == <<runnerVars, genVars, tmplVars, uploadVars, loggingVars, argsVars>>

vars == <<runnerVars, genVars, tmplVars, uploadVars, loggingVars, argsVars, suiteVars>>

(***************************************************************************)
(* Exceptions.  Every exception of the model is an instance of Exception   *)
(* (OSError, FileNotFoundError, ImportError, pyteal's TealInputError ...), *)
(* the class both handlers of test_runner.py intercept.                    *)
(***************************************************************************)
NoExc == [cls |-> "none", msg |-> ""]

Exceptions ==
    { [cls |-> "OSError", msg |-> "No space left on device"],
      [cls |-> "TealInputError", msg |-> "unsupported expression"] }

\* str(e) of an exception: its message.
Str(e) == e.msg

(***************************************************************************)
(* What the environment does when a stage runs: the stage ends with an     *)
(* exit code, raises, or (TEAL stage) finds no module spec to load.        *)
(***************************************************************************)
Exit(code) == [kind |-> "exit", code |-> code, exc |-> NoExc, step |-> "run"]

Raise(step, e) == [kind |-> "raise", code |-> 0, exc |-> e, step |-> step]

\* pytest.main's return value: 0 all passed, 1 some test failed, 4 usage error
\* (nothing is collected, no test is executed).
PytestExitCodes == {0, 1, 4}

\* bandit, mypy, flake8: 0 clean, 1 findings.
ToolExitCodes == {0, 1}

(***************************************************************************)
(* Logging.                                                                *)
(***************************************************************************)
Info(text) == [level |-> "INFO", text |-> <<text>>]

\* self.logger.error(f"{prefix}{str(e)}")
ErrorEntry(prefix, e) == [level |-> "ERROR", text |-> <<prefix, Str(e)>>]

\* the text of a log entry contains the text s
Contains(entry, s) == \E i \in 1..Len(entry.text) : entry.text[i] = s

(***************************************************************************)
(* AlgorandTestGenerator.generate_test_suite: the template, as the class   *)
(* name and the tests it declares, each with its pytest markers and the    *)
(* fixtures it asks for.                                                   *)
(***************************************************************************)
ContractNames == {"counter", "my_token"}

\* str.title() on the contract names of the model
Title(name) ==
    CASE name = "counter" -> "Counter"
      [] name = "my_token" -> "My_Token"
      [] name = "contract" -> "Contract"
      [] OTHER -> name

SuiteTests ==
    << [name |-> "test_approval_program_compilation", marks |-> {},
        fixtures |-> {"contract"}],
       [name |-> "test_clear_state_program_compilation", marks |-> {},
        fixtures |-> {"contract"}],
       [name |-> "test_app_creation", marks |-> {"integration"},
        fixtures |-> {"contract", "algod_client"}],
       [name |-> "test_opcode_count", marks |-> {"performance"},
        fixtures |-> {"contract"}],
       [name |-> "test_state_access_performance", marks |-> {"performance"},
        fixtures |-> {"contract"}] >>

generate_test_suite(name) ==
    [cls |-> "Test" \o Title(name), module |-> name, tests |-> SuiteTests]

NoSuite == [cls |-> "", module |-> "", tests |-> <<>>]

TestNames(suite) == {suite.tests[i].name : i \in 1..Len(suite.tests)}

(***************************************************************************)
(* _run_pytest: the argument list handed to pytest.main, and the tests     *)
(* pytest selects from the file for it.                                    *)
(***************************************************************************)
\* str.split(): the words of a text, its blanks dropped
SplitWs(text) == SelectSeq(text, LAMBDA t : t # " ")

\* args of _run_pytest; test_names is a parameter the body never reads
PytestArgs(test_type, test_names, extra_args) ==
    << "test_file", "-v", "--junitxml=" \o test_type, "--cov",
       "--cov-report=html:" \o test_type, "--cov-report=xml:" \o test_type >>
    \o (IF extra_args # <<>> THEN SplitWs(extra_args) ELSE <<>>)

\* pytest's selection: -k EXPR keeps the tests named by EXPR, -m MARK the tests
\* carrying MARK; without either every test of the file is selected.
PytestSelected(args, suite) ==
    LET tests == {suite.tests[i] : i \in 1..Len(suite.tests)}
        marked(t) == \A i \in 1..(Len(args) - 1) :
                        args[i] = "-m" => args[i + 1] \in t.marks
        named(t) == \A i \in 1..(Len(args) - 1) :
                        args[i] = "-k" => args[i + 1] = t.name
    IN  {t.name : t \in {u \in tests : marked(u) /\ named(u)}}

\* the three calls of run_tests: test_type, test_names, extra_args
PassCall(stage) ==
    CASE stage = "unit" ->
            [test_type |-> "unit",
             test_names |-> {"test_approval_program_compilation",
                             "test_clear_state_program_compilation"},
             extra_args |-> <<>>]
      [] stage = "integration" ->
            [test_type |-> "integration",
             test_names |-> {"test_app_creation"},
             extra_args |-> <<"-m", " ", "integration">>]
      [] stage = "performance" ->
            [test_type |-> "performance",
             test_names |-> {"test_opcode_count", "test_state_access_performance"},
             extra_args |-> <<"-m", " ", "performance">>]

PytestPasses == {"unit", "integration", "performance"}

\* the tests one pass executes: none on a usage error, else the selection
RunPytest(call, suite, code) ==
    IF code = 4 THEN {}
    ELSE PytestSelected(PytestArgs(call.test_type, call.test_names, call.extra_args),
                        suite)

(***************************************************************************)
(* subprocess.run([...]) without check=True: the exit code is returned in  *)
(* a CompletedProcess nobody reads; only a failure to start the program    *)
(* raises.                                                                 *)
(***************************************************************************)
\* as if called with check=True: a non-zero exit raises CalledProcessError
SubprocessRunChecked(o) ==
    IF o.kind = "raise" THEN o.exc
    ELSE IF o.code # 0
         THEN [cls |-> "CalledProcessError", msg |-> "non-zero exit status"]
         ELSE NoExc

SubprocessRun(o) == IF o.kind = "raise" THEN o.exc ELSE NoExc

(***************************************************************************)
(* pytest.main(args) as _run_pytest calls it: the exit code is the return  *)
(* value, which _run_pytest drops; os.makedirs before it may raise.        *)
(***************************************************************************)
\* as if the pass ended with sys.exit(pytest.main(args)) on a failure
PytestMainEscalated(o) ==
    IF o.kind = "raise" THEN o.exc
    ELSE IF o.code # 0
         THEN [cls |-> "RuntimeError", msg |-> "pytest failed"]
         ELSE NoExc

PytestMain(o) == IF o.kind = "raise" THEN o.exc ELSE NoExc

(***************************************************************************)
(* _analyze_teal: what it raises, logs and writes for an outcome.          *)
(***************************************************************************)
NoSpec == [kind |-> "nospec", code |-> 0, exc |-> NoExc, step |-> "spec"]

\* as if the handler of _analyze_teal logged the failure and went on
AnalyzeTealSwallowing(o) ==
    CASE o.kind = "raise" ->
            [exc |-> NoExc,
             entries |-> <<ErrorEntry("TEAL compilation failed: ", o.exc)>>,
             files |-> {}]
      [] o.kind = "nospec" ->
            [exc |-> NoExc, entries |-> <<>>, files |-> {}]
      [] OTHER ->
            [exc |-> NoExc, entries |-> <<>>, files |-> {"teal.log"}]

AnalyzeTeal(o) ==
    CASE o.kind = "raise" ->
            [exc |-> o.exc,
             entries |-> <<ErrorEntry("TEAL compilation failed: ", o.exc)>>,
             files |-> {}]
      [] o.kind = "nospec" ->
            [exc |-> NoExc, entries |-> <<>>, files |-> {}]
      [] OTHER ->
            [exc |-> NoExc, entries |-> <<>>, files |-> {"teal.log"}]

(***************************************************************************)
(* run_tests.                                                              *)
(***************************************************************************)
StageOrder ==
    <<"generate", "unit", "integration", "performance",
      "bandit", "mypy", "flake8", "teal">>

\* as if the security analysis had been placed before the performance pass
NextStageSwapped(stage) ==
    CASE stage = "start" -> "generate"
      [] stage = "generate" -> "unit"
      [] stage = "unit" -> "integration"
      [] stage = "integration" -> "bandit"
      [] stage = "bandit" -> "performance"
      [] stage = "performance" -> "mypy"
      [] stage = "mypy" -> "flake8"
      [] stage = "flake8" -> "teal"
      [] stage = "teal" -> "returned"

\* the statement order of run_tests (mypy and flake8 are the two calls of
\* _run_static_analysis)
NextStage(stage) ==
    CASE stage = "start" -> "generate"
      [] stage = "generate" -> "unit"
      [] stage = "unit" -> "integration"
      [] stage = "integration" -> "performance"
      [] stage = "performance" -> "bandit"
      [] stage = "bandit" -> "mypy"
      [] stage = "mypy" -> "flake8"
      [] stage = "flake8" -> "teal"
      [] stage = "teal" -> "returned"

\* except Exception as e: self.logger.error(...); raise
RunTestsExcept(e) ==
    [pc |-> "raised",
     entries |-> <<ErrorEntry("Error during test execution: ", e)>>,
     propagated |-> e]

\* a stage ended: go on, or leave through the handler of run_tests
StageEnds(stage, o, exc, before, after) ==
    /\ trace' = Append(trace, [stage |-> stage, outcome |-> o])
    /\ IF exc = NoExc
       THEN /\ pc' = NextStage(stage)
            /\ log' = log \o before \o after
            /\ propagated' = propagated
       ELSE LET h == RunTestsExcept(exc)
            IN  /\ pc' = h.pc
                /\ log' = log \o before \o h.entries
                /\ propagated' = h.propagated

Terminated == pc \in {"returned", "raised"}

InitRunner ==
    /\ pc = "start"
    /\ log = <<>>
    /\ trace = <<>>
    /\ propagated = NoExc
    /\ executed = [p \in PytestPasses |-> {}]
    /\ files = {}
    /\ testFile = NoSuite
    /\ contract_name \in ContractNames

\* run_tests is entered: its first log line
Start ==
    /\ UNCHANGED nonRunnerVars
    /\ pc = "start"
    /\ pc' = NextStage("start")
    /\ log' = Append(log, Info("Running comprehensive test suite"))
    /\ UNCHANGED <<trace, propagated, executed, files, testFile, contract_name>>

\* stage 1: generate the suite and write it to the test file
GenerateSuite ==
    /\ UNCHANGED nonRunnerVars
    /\ pc = "generate"
    /\ \E o \in {Exit(0)} \cup {Raise("write", e) : e \in Exceptions} :
        /\ StageEnds("generate", o, o.exc, <<>>, <<>>)
        /\ IF o.kind = "raise"
           THEN UNCHANGED <<files, testFile>>
           ELSE /\ files' = files \cup {"test_file"}
                /\ testFile' = generate_test_suite(contract_name)
    /\ UNCHANGED <<executed, contract_name>>

\* stages 2-4: one pytest pass
PytestPass(stage) ==
    /\ UNCHANGED nonRunnerVars
    /\ pc = stage
    /\ \E o \in {Exit(c) : c \in PytestExitCodes}
                \cup {Raise("makedirs", e) : e \in Exceptions} :
        /\ StageEnds(stage, o, PytestMain(o),
                     <<Info("Running " \o stage \o " tests...")>>,
                     <<Info(stage \o " tests completed")>>)
        /\ IF o.kind = "raise"
           THEN UNCHANGED <<executed, files>>
           ELSE /\ executed' = [executed EXCEPT
                                  ![stage] = RunPytest(PassCall(stage), testFile, o.code)]
                /\ files' = files \cup {"reports/" \o stage \o ".xml"}
    /\ UNCHANGED <<testFile, contract_name>>

\* stage 5: _run_security_checks (bandit)
SecurityChecks ==
    /\ UNCHANGED nonRunnerVars
    /\ pc = "bandit"
    /\ \E o \in {Exit(c) : c \in ToolExitCodes}
                \cup {Raise("start", e) : e \in Exceptions} :
        /\ StageEnds("bandit", o, SubprocessRun(o),
                     <<Info("Running security analysis...")>>,
                     <<Info("Security analysis completed")>>)
        /\ files' = IF o.kind = "raise" THEN files
                    ELSE files \cup {"security/bandit.log"}
    /\ UNCHANGED <<executed, testFile, contract_name>>

\* stage 6, first call of _run_static_analysis: mypy
StaticMypy ==
    /\ UNCHANGED nonRunnerVars
    /\ pc = "mypy"
    /\ \E o \in {Exit(c) : c \in ToolExitCodes}
                \cup {Raise("start", e) : e \in Exceptions} :
        /\ StageEnds("mypy", o, SubprocessRun(o),
                     <<Info("Running static analysis...")>>, <<>>)
        /\ files' = IF o.kind = "raise" THEN files
                    ELSE files \cup {"security/mypy.log"}
    /\ UNCHANGED <<executed, testFile, contract_name>>

\* stage 6, second call of _run_static_analysis: flake8
StaticFlake8 ==
    /\ UNCHANGED nonRunnerVars
    /\ pc = "flake8"
    /\ \E o \in {Exit(c) : c \in ToolExitCodes}
                \cup {Raise("start", e) : e \in Exceptions} :
        /\ StageEnds("flake8", o, SubprocessRun(o),
                     <<>>, <<Info("Static analysis completed")>>)
        /\ files' = IF o.kind = "raise" THEN files
                    ELSE files \cup {"security/flake8.log"}
    /\ UNCHANGED <<executed, testFile, contract_name>>

\* stage 7: _analyze_teal
TealAnalysis ==
    /\ UNCHANGED nonRunnerVars
    /\ pc = "teal"
    /\ \E o \in {Exit(0), NoSpec}
                \cup {Raise(s, e) : s \in {"import", "load", "compile", "write"},
                                    e \in Exceptions} :
        LET r == AnalyzeTeal(o)
        IN  /\ StageEnds("teal", o, r.exc,
                         <<Info("Analyzing TEAL output...")>> \o r.entries,
                         <<Info("TEAL analysis completed")>>)
            /\ files' = files \cup r.files
    /\ UNCHANGED <<executed, testFile, contract_name>>

NextRunner ==
    \/ Start
    \/ GenerateSuite
    \/ \E stage \in PytestPasses : PytestPass(stage)
    \/ SecurityChecks
    \/ StaticMypy
    \/ StaticFlake8
    \/ TealAnalysis

\* the tests of TestAlgorandContract, in definition order
TemplateTestOrder ==
    << "test_approval_program_compilation", "test_clear_state_program_compilation",
       "test_app_creation", "test_opcode_count", "test_state_access_performance" >>

TemplateTests == {TemplateTestOrder[k] : k \in 1..Len(TemplateTestOrder)}

NotRun == [outcome |-> "not_run", reason |-> ""]

\* a fixture that has not been executed
Unset == [outcome |-> "unset", reason |-> ""]

\* no generated test is being run
IdleSuite ==
    /\ spc = "idle"
    /\ instance = [deploy |-> <<>>, hidden |-> "", call |-> "", zero |-> "",
                   step |-> 0]
    /\ generated = <<>>
    /\ selected = 0
    /\ attempts = <<>>
    /\ contract_fixture = Unset
    /\ verdict = "not_run"

\* a generator function that has not been called
NotCalled == [called |-> FALSE, list |-> <<>>, text |-> <<>>]

\* no argument text is being processed
IdleArgs ==
    /\ apc = "idle"
    /\ args_input = <<>>
    /\ mock_args = NotCalled
    /\ call_args = NotCalled

\* the output directories runners are constructed with
OutputDirs == {"out1", "out2"}

\* no runner has been constructed in the process
IdleLogging ==
    /\ runners = <<>>
    /\ handlers = <<>>
    /\ logfiles = [d \in OutputDirs |-> <<>>]
    /\ console = <<>>
    /\ sent = 0

\* the upload service has handled no request
IdleUpload ==
    /\ disk = {}
    /\ responses = <<>>

\* no pytest session over test_template.py is running
IdleTemplate ==
    /\ tpc = 0
    /\ world = [CONTRACT_NAME |-> "", CONTRACT_MODULE |-> "", load |-> "ok",
                approval |-> "absent", clear_state |-> "absent", devnet |-> "up",
                opcode_count |-> 0, access_count |-> 0]
    /\ cache = [f \in {"contract_module", "algod_client"} |-> Unset]
    /\ report = [t \in TemplateTests |-> NotRun]
    /\ network = <<>>
    /\ loaded = <<>>

\* the generator is not running
IdleGenerator ==
    /\ gpc = "idle"
    /\ file = [readable |-> FALSE, text |-> <<>>]
    /\ stem = ""
    /\ functions = <<>>
    /\ features = [keys |-> {}, on |-> {}]
    /\ output = <<>>
    /\ written = <<>>
    /\ argc = 1
    /\ exit_status = "none"
    /\ stdout = <<>>
    /\ reads = 0

Init == IdleSuite /\ IdleArgs /\ IdleLogging /\ IdleUpload /\ IdleTemplate /\ IdleGenerator /\ InitRunner

Next == NextRunner

Spec == Init /\ [][Next]_vars

(***************************************************************************)
(* StarkNet generator (generate_starknet_tests.py).                        *)
(*                                                                         *)
(* A text is a sequence of tokens: blanks " " and line ends "\n",          *)
(* punctuation, and words (maximal runs of \w characters).  Two words are  *)
(* never adjacent in a text.                                               *)
(***************************************************************************)
WsToks == {" ", "\n"}

PunctToks ==
    {"(", ")", ",", ":", "->", "{", "}", ";", "*", "@external", "@view",
     "#[event]", "#[constructor]", "//"}

IsWs(tok) == tok \in WsToks

\* \w+
IsWord(tok) == tok \notin WsToks /\ tok \notin PunctToks

Min(S) == CHOOSE x \in S : \A y \in S : x <= y

\* the first position from i on that holds no blank (Len(t) + 1: none)
SkipWs(t, i) ==
    Min({j \in i..(Len(t) + 1) : j = Len(t) + 1 \/ ~IsWs(t[j])})

\* the first position from i on that holds a token of S (0: none)
FirstOf(t, i, S) ==
    LET hits == {j \in i..Len(t) : t[j] \in S}
    IN  IF hits = {} THEN 0 ELSE Min(hits)

Slice(t, a, b) == IF a > b THEN <<>> ELSE SubSeq(t, a, b)

NoMatch == [ok |-> FALSE, end |-> 0, func_type |-> "", func_name |-> "",
            args |-> <<>>, returns |-> <<>>, groups |-> 0]

\* The modern pattern, tried at position i:
\*    fn\s+(\w+)\s*\([^)]*\)(?:\s*->\s*([^{;]+))?
\* end is the position after the match.
ModernAt(t, i) ==
    IF t[i] # "fn" THEN NoMatch
    ELSE
    LET n == SkipWs(t, i + 1)
    IN  IF n = i + 1 \/ n > Len(t) \/ ~IsWord(t[n]) THEN NoMatch
        ELSE
        LET open == SkipWs(t, n + 1)
        IN  IF open > Len(t) \/ t[open] # "(" THEN NoMatch
            ELSE
            LET close == FirstOf(t, open + 1, {")"})
            IN  IF close = 0 THEN NoMatch
                ELSE
                LET arrow == SkipWs(t, close + 1)
                    hasArrow == arrow <= Len(t) /\ t[arrow] = "->"
                    \* \s* is greedy, but gives a blank back when nothing else
                    \* is left for [^{;]+
                    afterWs == IF hasArrow THEN SkipWs(t, arrow + 1) ELSE 0
                    stopAt(from) ==
                        LET s == FirstOf(t, from, {"{", ";"})
                        IN  IF s = 0 THEN Len(t) + 1 ELSE s
                    from == IF ~hasArrow THEN 0
                            ELSE IF afterWs <= Len(t) /\ t[afterWs] \notin {"{", ";"}
                                 THEN afterWs
                                 ELSE IF afterWs - 1 > arrow THEN afterWs - 1
                                      ELSE 0
                IN  IF from = 0
                    THEN [ok |-> TRUE, end |-> close + 1, func_type |-> "",
                          func_name |-> t[n], args |-> <<>>, returns |-> <<>>,
                          groups |-> 2]
                    ELSE [ok |-> TRUE, end |-> stopAt(from), func_type |-> "",
                          func_name |-> t[n], args |-> <<>>,
                          returns |-> Slice(t, from, stopAt(from) - 1),
                          groups |-> 2]

\* The legacy pattern, tried at position i:
\*    @(external|view)[^\n]*\s*\n\s*func\s+(\w+)\(([^\)]*)\)(?:\s*->\s*\((.*?)\))?:
\* with re.DOTALL: the lazy .*? runs to the first ")" that a ":" follows.
LegacyAt(t, i) ==
    IF t[i] \notin {"@external", "@view"} THEN NoMatch
    ELSE
    LET nl == FirstOf(t, i + 1, {"\n"})
    IN  IF nl = 0 THEN NoMatch
        ELSE
        LET f == SkipWs(t, nl)
        IN  IF f > Len(t) \/ t[f] # "func" THEN NoMatch
            ELSE
            LET n == SkipWs(t, f + 1)
            IN  IF n = f + 1 \/ n > Len(t) \/ ~IsWord(t[n]) THEN NoMatch
                ELSE IF n + 1 > Len(t) \/ t[n + 1] # "(" THEN NoMatch
                ELSE
                LET close == FirstOf(t, n + 2, {")"})
                IN  IF close = 0 THEN NoMatch
                    ELSE
                    LET arrow == SkipWs(t, close + 1)
                        ropen == IF arrow <= Len(t) /\ t[arrow] = "->"
                                 THEN SkipWs(t, arrow + 1) ELSE Len(t) + 1
                        hasRet == ropen <= Len(t) /\ t[ropen] = "("
                        ends == IF hasRet
                                THEN {k \in (ropen + 1)..(Len(t) - 1) :
                                        t[k] = ")" /\ t[k + 1] = ":"}
                                ELSE {}
                        ftype == IF t[i] = "@external" THEN "external" ELSE "view"
                    IN  IF ends # {}
                        THEN [ok |-> TRUE, end |-> Min(ends) + 2, func_type |-> ftype,
                              func_name |-> t[n],
                              args |-> Slice(t, n + 2, close - 1),
                              returns |-> Slice(t, ropen + 1, Min(ends) - 1),
                              groups |-> 4]
                        ELSE IF close + 1 <= Len(t) /\ t[close + 1] = ":"
                        THEN [ok |-> TRUE, end |-> close + 2, func_type |-> ftype,
                              func_name |-> t[n],
                              args |-> Slice(t, n + 2, close - 1),
                              returns |-> <<>>, groups |-> 4]
                        ELSE NoMatch

\* re.findall: the non-overlapping matches, scanning from the left
RECURSIVE FindAllModern(_, _)
FindAllModern(t, i) ==
    IF i > Len(t) THEN <<>>
    ELSE LET m == ModernAt(t, i)
         IN  IF m.ok THEN <<m>> \o FindAllModern(t, m.end)
             ELSE FindAllModern(t, i + 1)

RECURSIVE FindAllLegacy(_, _)
FindAllLegacy(t, i) ==
    IF i > Len(t) THEN <<>>
    ELSE LET m == LegacyAt(t, i)
         IN  IF m.ok THEN <<m>> \o FindAllLegacy(t, m.end)
             ELSE FindAllLegacy(t, i + 1)

\* one record of the result: (func_type, func_name, args, returns)
\* as if a modern declaration of get_counter were tagged view
FunctionRecordViewForGetter(m) ==
    IF m.groups = 2
    THEN [func_type |-> IF m.func_name = "get_counter" THEN "view" ELSE "external",
          func_name |-> m.func_name, args |-> <<>>, returns |-> m.returns]
    ELSE [func_type |-> m.func_type, func_name |-> m.func_name,
          args |-> m.args, returns |-> m.returns]

FunctionRecord(m) ==
    IF m.groups = 2
    THEN [func_type |-> "external", func_name |-> m.func_name,
          args |-> <<>>, returns |-> m.returns]
    ELSE [func_type |-> m.func_type, func_name |-> m.func_name,
          args |-> m.args, returns |-> m.returns]

MapRecords(ms) == [k \in 1..Len(ms) |-> FunctionRecord(ms[k])]

\* as if the legacy pattern were tried first
parse_functionsLegacyFirst(contract_path) ==
    IF ~contract_path.readable THEN <<>>
    ELSE MapRecords(FindAllLegacy(contract_path.text, 1))
         \o MapRecords(FindAllModern(contract_path.text, 1))

\* as if a default entry point were assumed when no declaration is found
parse_functionsDefaulting(contract_path) ==
    IF ~contract_path.readable THEN <<>>
    ELSE LET found == MapRecords(FindAllModern(contract_path.text, 1))
                      \o MapRecords(FindAllLegacy(contract_path.text, 1))
         IN  IF found = <<>>
             THEN << [func_type |-> "external", func_name |-> "constructor",
                      args |-> <<>>, returns |-> <<>>] >>
             ELSE found

\* parse_functions: the modern pattern's matches, then the legacy pattern's;
\* an unreadable file gives the empty list
parse_functions(contract_path) ==
    IF ~contract_path.readable THEN <<>>
    ELSE MapRecords(FindAllModern(contract_path.text, 1))
         \o MapRecords(FindAllLegacy(contract_path.text, 1))

(***************************************************************************)
(* Substring tests on the words of the model.  SubstringTable holds the    *)
(* pairs <<token, literal>> with the literal occurring in the token,       *)
(* LowerSubstringTable those with the literal occurring in token.lower().  *)
(***************************************************************************)
Vocabulary ==
    {"fn", "func", "struct", "Storage", "storage", "storage_var", "get_counter",
     "increment_counter", "transfer", "mint", "increment_by", "foo", "constructor",
     "balance_of", "get_owner", "only_owner", "budget_of", "version", "a", "b", "c", "to", "amount", "res",
     "x", "felt", "u256", "u128", "ContractAddress", "bool", "Array", "owner",
     "paused", "assert", "Event", "emit", "@external", "@view", "#[event]",
     "#[constructor]", "(", ")", ",", ":", "->", "{", "}", ";", "*", "//", "!",
     " ", "\n"}

SubstringTable ==
    { <<"storage_var", "storage_var">>, <<"get_counter", "get_">>,
      <<"transfer", "transfer">>, <<"mint", "mint">>,
      <<"balance_of", "balance">>, <<"get_owner", "owner">>,
      <<"get_owner", "get_">>, <<"budget_of", "get_">>,
      <<"only_owner", "owner">>,
      <<"only_owner", "only_owner">>, <<"owner", "owner">>,
      <<"paused", "paused">>, <<"paused", "pause">>,
      <<"assert", "assert">>, <<"Event", "Event">>,
      <<"#[event]", "#[event]">>, <<"#[constructor]", "#[constructor]">> }

LowerSubstringTable ==
    { <<"felt", "felt">>, <<"u256", "u256">>, <<"u128", "u128">>,
      <<"ContractAddress", "address">>,
      <<"ContractAddress", "contractaddress">>, <<"bool", "bool">>,
      <<"Felt252", "felt">> }

\* literal in tok
In(literal, tok) == <<tok, literal>> \in SubstringTable

\* literal in tok.lower()
InLower(literal, tok) == <<tok, literal>> \in LowerSubstringTable

\* re.search of one of the literals in the text
Search(literals, t) ==
    \E i \in 1..Len(t) : \E k \in literals : In(k, t[i])

(***************************************************************************)
(* analyze_contract_features: nine independent searches of the text.  The  *)
(* mapping is held as its key set and the set of keys mapped to True; an   *)
(* unreadable file gives the empty mapping.                                *)
(***************************************************************************)
Flags ==
    {"has_storage", "has_events", "has_constructor", "has_ownable", "has_pausable",
     "has_transfers", "has_balances", "has_minting", "has_access_control"}

\* struct Storage|storage_var|storage:
SearchStorage(t) ==
    \/ \E i \in 1..(Len(t) - 2) :
          t[i] = "struct" /\ t[i + 1] = " " /\ t[i + 2] = "Storage"
    \/ Search({"storage_var"}, t)
    \/ \E i \in 1..(Len(t) - 1) : t[i] = "storage" /\ t[i + 1] = ":"

\* #\[event\]|Event|emit!
SearchEvents(t) ==
    \/ Search({"#[event]", "Event"}, t)
    \/ \E i \in 1..(Len(t) - 1) : t[i] = "emit" /\ t[i + 1] = "!"

\* #\[constructor\]|constructor\s*\(
SearchConstructor(t) ==
    \/ Search({"#[constructor]"}, t)
    \/ \E i \in 1..(Len(t) - 1) :
          /\ t[i] = "constructor"
          /\ SkipWs(t, i + 1) <= Len(t)
          /\ t[SkipWs(t, i + 1)] = "("

\* only_\w+|require|assert
SearchAccessControl(t) ==
    \/ \E i \in 1..Len(t) : t[i] \in {"only_owner"}
    \/ Search({"require", "assert"}, t)

FlagFound(flag, t) ==
    CASE flag = "has_storage" -> SearchStorage(t)
      [] flag = "has_events" -> SearchEvents(t)
      [] flag = "has_constructor" -> SearchConstructor(t)
      [] flag = "has_ownable" -> Search({"owner", "Owner", "only_owner"}, t)
      [] flag = "has_pausable" -> Search({"paused", "pause", "unpause"}, t)
      [] flag = "has_transfers" -> Search({"transfer", "Transfer"}, t)
      [] flag = "has_balances" -> Search({"balance", "Balance"}, t)
      [] flag = "has_minting" -> Search({"mint", "Mint"}, t)
      [] flag = "has_access_control" -> SearchAccessControl(t)

EmptyMapping == [keys |-> {}, on |-> {}]

\* as if the handler answered a read failure with a default FeatureSet
analyze_contract_featuresDefaulting(contract_path) ==
    IF ~contract_path.readable THEN [keys |-> Flags, on |-> {"has_storage"}]
    ELSE [keys |-> Flags, on |-> {flag \in Flags : FlagFound(flag, contract_path.text)}]

analyze_contract_features(contract_path) ==
    IF ~contract_path.readable THEN EmptyMapping
    ELSE [keys |-> Flags, on |-> {flag \in Flags : FlagFound(flag, contract_path.text)}]

\* features.get(flag), as a truth value
Get(feats, flag) == flag \in feats.on

(***************************************************************************)
(* generate_function_args / generate_call_args.                            *)
(***************************************************************************)
\* str.split(sep): the pieces of the text between the sep tokens
RECURSIVE SplitOn(_, _)
SplitOn(t, sep) ==
    LET k == FirstOf(t, 1, {sep})
    IN  IF k = 0 THEN <<t>>
        ELSE <<Slice(t, 1, k - 1)>> \o SplitOn(Slice(t, k + 1, Len(t)), sep)

\* str.strip()
Strip(t) ==
    LET keep == {j \in 1..Len(t) : ~IsWs(t[j])}
    IN  IF keep = {} THEN <<>>
        ELSE Slice(t, Min(keep), CHOOSE x \in keep : \A y \in keep : y <= x)

\* as if the bool rule were tried before the address rule
MockValueBoolFirst(typ) ==
    LET has(k) == \E i \in 1..Len(typ) : InLower(k, typ[i])
    IN  IF has("felt") \/ has("u256") \/ has("u128") THEN "123"
        ELSE IF has("bool") THEN "True"
        ELSE IF has("address") \/ has("contractaddress") THEN "owner_address"
        ELSE "0"

\* the mock value for a type tag: the first rule that matches typ.lower()
MockValue(typ) ==
    LET has(k) == \E i \in 1..Len(typ) : InLower(k, typ[i])
    IN  IF has("felt") \/ has("u256") \/ has("u128") THEN "123"
        ELSE IF has("address") \/ has("contractaddress") THEN "owner_address"
        ELSE IF has("bool") THEN "True"
        ELSE "0"

\* one fragment of the argument text: the entry appended for it, or none
ArgEntry(fragment, assign) ==
    LET arg == Strip(fragment)
        colon == FirstOf(arg, 1, {":"})
    IN  IF colon = 0 THEN <<>>
        ELSE << Strip(Slice(arg, 1, colon - 1))
                \o <<assign, MockValue(Strip(Slice(arg, colon + 1, Len(arg))))>> >>

RECURSIVE ArgEntries(_, _)
ArgEntries(fragments, assign) ==
    IF fragments = <<>> THEN <<>>
    ELSE ArgEntry(Head(fragments), assign) \o ArgEntries(Tail(fragments), assign)

\* the list args of generate_call_args (empty on the early return)
CallArgList(args_string) ==
    IF Strip(args_string) = <<>> THEN <<>>
    ELSE ArgEntries(SplitOn(args_string, ","), "=")

\* as if generate_function_args kept a fragment without a colon, with the
\* generic zero value
FunctionArgListKeepingUntyped(args_string) ==
    IF Strip(args_string) = <<>> THEN <<>>
    ELSE LET fragments == SplitOn(args_string, ",")
             entry(k) == IF FirstOf(fragments[k], 1, {":"}) = 0
                         THEN << Strip(fragments[k]) \o <<" = ", "0">> >>
                         ELSE ArgEntry(fragments[k], " = ")
             all[k \in 0..Len(fragments)] ==
                 IF k = 0 THEN <<>> ELSE all[k - 1] \o entry(k)
         IN  all[Len(fragments)]

\* the list args of generate_function_args (empty on the early return)
FunctionArgList(args_string) ==
    IF Strip(args_string) = <<>> THEN <<>>
    ELSE ArgEntries(SplitOn(args_string, ","), " = ")

\* sep.join(parts)
RECURSIVE Join(_, _)
Join(parts, sep) ==
    IF parts = <<>> THEN <<>>
    ELSE IF Len(parts) = 1 THEN parts[1]
    ELSE parts[1] \o <<sep>> \o Join(Tail(parts), sep)

generate_function_args(args_string) ==
    IF Strip(args_string) = <<>> THEN <<"# No arguments needed">>
    ELSE LET entries == FunctionArgList(args_string)
         IN  Join([k \in 1..Len(entries) |-> <<"# ">> \o entries[k]],
                  "\n            ")

generate_call_args(args_string) ==
    IF Strip(args_string) = <<>> THEN <<>>
    ELSE Join(CallArgList(args_string), ", ")

(***************************************************************************)
(* The generated suite: the sequence of the text blocks the generator      *)
(* concatenates, each with the values substituted into its template.       *)
(***************************************************************************)
Block(kind) ==
    [kind |-> kind, contract |-> "", cls |-> "", func_name |-> "", func_type |-> "",
     prep |-> <<>>, call_args |-> <<>>, flag |-> ""]

generate_test_header(name) ==
    << [Block("header") EXCEPT !.contract = name,
                               !.cls = "Test" \o Title(name) \o "Contract"] >>

\* as if the list held only the two token functions
EdgeCaseNamesTransferMint == {"transfer", "mint"}

\* if func_name in ['transfer', 'mint', 'increment_by']
EdgeCaseNames == {"transfer", "mint", "increment_by"}

\* the blocks of one function: its basic-call test, then its edge-case test
FunctionBlocks(f) ==
    << [Block("basic_call") EXCEPT !.func_name = f.func_name,
                                   !.func_type = f.func_type,
                                   !.prep = generate_function_args(f.args),
                                   !.call_args = generate_call_args(f.args)] >>
    \o (IF f.func_name \in EdgeCaseNames
        THEN << [Block("edge_cases") EXCEPT !.func_name = f.func_name] >>
        ELSE <<>>)

\* as if the edge-case blocks were emitted only for contracts with transfers
RECURSIVE generate_function_testsByFeature(_, _)
generate_function_testsByFeature(funcs, feats) ==
    IF funcs = <<>> THEN <<>>
    ELSE (IF Get(feats, "has_transfers")
          THEN FunctionBlocks(Head(funcs))
          ELSE <<FunctionBlocks(Head(funcs))[1]>>)
         \o generate_function_testsByFeature(Tail(funcs), feats)

\* as if the blocks of the last function came first
RECURSIVE generate_function_testsReversed(_, _)
generate_function_testsReversed(funcs, feats) ==
    IF funcs = <<>> THEN <<>>
    ELSE generate_function_testsReversed(Tail(funcs), feats)
         \o FunctionBlocks(Head(funcs))

RECURSIVE generate_function_tests(_, _)
generate_function_tests(funcs, feats) ==
    IF funcs = <<>> THEN <<>>
    ELSE FunctionBlocks(Head(funcs))
         \o generate_function_tests(Tail(funcs), feats)

ReadOnlyNames == {"balance_of", "total_supply", "is_paused", "foo"}

\* as if the name test were a prefix test (startswith('get_'))
DispatchByPrefix(block) ==
    IF \/ block.func_type = "view"
       \/ block.func_name \in {"get_counter", "get_owner"}
       \/ block.func_name \in ReadOnlyNames
    THEN "call" ELSE "invoke"

\* the basic-call test as generated: the branch its if takes when the test
\* runs, .call() or .invoke()
Dispatch(block) ==
    IF \/ block.func_type = "view"
       \/ In("get_", block.func_name)
       \/ block.func_name \in ReadOnlyNames
    THEN "call" ELSE "invoke"

\* the edge-case test as generated: the nominal call it makes first
NominalCall(block) ==
    CASE block.func_name \in {"transfer", "mint"} -> "to=user_address, amount=TEST_AMOUNT"
      [] block.func_name = "increment_by" -> "amount=5"
      [] OTHER -> "none"

\* as if the zero-amount call were made for every edge-case function
ExpectsZeroAmountFailureAlways(block) == block.func_name \in EdgeCaseNames

\* the edge-case test as generated: whether it then expects the zero-amount
\* call to raise (if '{func_name}' in ['transfer', 'mint'])
ExpectsZeroAmountFailure(block) == block.func_name \in {"transfer", "mint"}

FeatureBlock(feats, flag, kind) ==
    IF Get(feats, flag) THEN << [Block(kind) EXCEPT !.flag = flag] >> ELSE <<>>

\* as if the event-emission block were left out
generate_feature_testsWithoutEvents(feats) ==
    FeatureBlock(feats, "has_storage", "test_storage_functionality")
    \o FeatureBlock(feats, "has_access_control", "test_access_control")

generate_feature_tests(feats) ==
    FeatureBlock(feats, "has_storage", "test_storage_functionality")
    \o FeatureBlock(feats, "has_events", "test_event_emission")
    \o FeatureBlock(feats, "has_access_control", "test_access_control")

generate_comprehensive_tests ==
    << Block("test_contract_state_consistency"),
       Block("test_multiple_users_interaction"),
       Block("test_error_handling"),
       Block("TestContractSecurity"),
       Block("TestContractPerformance") >>

(***************************************************************************)
(* main() of generate_starknet_tests.py, and the inputs of the model.      *)
(***************************************************************************)
MaxItems == 2

MaxFuncs == 2

MaxFlags == 2

\* len(sys.argv) is at least 1 (the script path) and at most MaxArgc
MaxArgc == 4

\* the lines a contract source is made of
Items ==
    { <<"fn", " ", "get_counter", "(", ")", " ", "->", " ", "felt", " ", "{", "\n">>,
      <<"fn", " ", "transfer", "(", "to", ":", " ", "ContractAddress", ",", " ",
        "amount", ":", " ", "u256", ")", " ", "{", "\n">>,
      <<"fn", " ", "mint", "(", ")", ";", "\n">>,
      <<"fn", " ", "increment_by", "(", "amount", ":", " ", "felt", ")", " ", "->",
        " ", "felt", "\n">>,
      <<"@view", "\n", "func", " ", "get_counter", "(", ")", " ", "->", " ", "(",
        "res", ":", " ", "felt", ")", ":", "\n">>,
      <<"@external", "\n", "func", " ", "transfer", "(", "to", ":", " ", "felt", ",",
        " ", "amount", ":", " ", "felt", ")", ":", "\n">>,
      <<"@external", "\n", "func", " ", "mint", "(", "a", ",", " ", "b", ":", " ",
        "felt", ")", ":", "\n">>,
      <<"@external", "\n", "func", " ", "increment_by", "(", "amount", ":", " ",
        "felt", ",", " ", ")", ":", "\n">>,
      <<"@external", "\n", "func", " ", "foo", "(", "a", ":", " ", "felt", "*", ",",
        " ", "b", " ", ":", " ", "bool", ",", "c", ":", "Array", ")", ":", "\n">>,
      <<"@external", "\n", "func", " ", "foo", "(", " ", ")", ":", "\n">>,
      <<"@view", "\n", "func", " ", "version", "(", ")", ":", "\n">>,
      <<"@external", "\n", "func", " ", "budget_of", "(", ")", ":", "\n">>,
      <<"func", " ", "foo", "(", "a", ":", " ", "felt", ")", ":", "\n">>,
      <<"@external", " ", "func", " ", "foo", "(", ")", ":", "\n">>,
      <<"fn", " ", "foo", "\n">>,
      <<"@external", "\n", "func", " ", "foo", "{", "x", "}", "(", "a", ":", " ",
        "felt", ")", ":", "\n">>,
      <<"struct", " ", "Storage", " ", "{", "\n">>,
      <<"owner", ":", " ", "felt", ",", "\n">>,
      <<"#[event]", "\n">>,
      <<"assert", " ", "paused", ";", "\n">>,
      <<"//", " ", "a", "\n">> }

\* the texts of at most n lines
RECURSIVE Texts(_)
Texts(n) ==
    IF n = 0 THEN {<<>>}
    ELSE LET shorter == Texts(n - 1)
         IN  shorter \cup {t \o item : t \in shorter, item \in Items}

SourceFiles ==
    {[readable |-> TRUE, text |-> t] : t \in Texts(MaxItems)}
    \cup {[readable |-> FALSE, text |-> <<>>]}

Stems == {"contract", "my_token"}

\* function records handed to the generator directly
PureFunctions ==
    { [func_type |-> "external", func_name |-> "transfer",
       args |-> <<"to", ":", " ", "felt", ",", " ", "amount", ":", " ", "u256">>,
       returns |-> <<>>],
      [func_type |-> "view", func_name |-> "get_counter", args |-> <<>>,
       returns |-> <<"res", ":", " ", "felt">>],
      [func_type |-> "external", func_name |-> "increment_by",
       args |-> <<"amount", ":", " ", "felt">>, returns |-> <<>>],
      [func_type |-> "external", func_name |-> "mint", args |-> <<>>,
       returns |-> <<>>],
      [func_type |-> "external", func_name |-> "foo",
       args |-> <<"a", ",", " ", "b", ":", " ", "bool">>, returns |-> <<>>],
      [func_type |-> "external", func_name |-> "increment_counter", args |-> <<>>,
       returns |-> <<>>] }

RECURSIVE FunctionLists(_)
FunctionLists(n) ==
    IF n = 0 THEN {<<>>}
    ELSE LET shorter == FunctionLists(n - 1)
         IN  shorter \cup {Append(fs, f) : fs \in shorter, f \in PureFunctions}

\* the FeatureSets with at most MaxFlags flags true, and the empty mapping
FeatureSets ==
    {[keys |-> Flags, on |-> on] : on \in {o \in SUBSET Flags : Cardinality(o) <= MaxFlags}}
    \cup {EmptyMapping}

\* main() is entered
InitMain ==
    /\ gpc = "args"
    /\ argc \in 1..MaxArgc
    /\ exit_status = "none"
    /\ stdout = <<>>
    /\ reads = 0
    /\ file \in SourceFiles
    /\ stem \in Stems
    /\ functions = <<>>
    /\ features = EmptyMapping
    /\ output = <<>>
    /\ written = <<>>

\* the generator functions are called with a function list and a FeatureSet
InitPure ==
    /\ gpc = "header"
    /\ argc = 1
    /\ exit_status = "none"
    /\ stdout = <<>>
    /\ reads = 0
    /\ file = [readable |-> FALSE, text |-> <<>>]
    /\ stem = "contract"
    /\ functions \in FunctionLists(MaxFuncs)
    /\ features \in FeatureSets
    /\ output = <<>>
    /\ written = <<>>

\* the runner is not running
IdleRunner ==
    /\ pc = "idle"
    /\ log = <<>>
    /\ trace = <<>>
    /\ propagated = NoExc
    /\ executed = [p \in PytestPasses |-> {}]
    /\ files = {}
    /\ testFile = NoSuite
    /\ contract_name = ""

\* what main() and its callees print
UsageLine == "Usage: generate_starknet_tests.py <input_contract.cairo> <output_test.py>"

ParseWarning == "Warning: Could not parse contract functions"

AnalyzeWarning == "Warning: Could not analyze contract features"

GeneratedLine == "Generated comprehensive test suite"

DetectedLine(funcs, feats) ==
    <<"Detected", Len(funcs), "functions and", Cardinality(feats.on), "advanced features">>

\* as if the argument count were only checked from below (len(sys.argv) < 3)
WrongArgumentCountTooFew(n) == n < 3

\* if len(sys.argv) != 3
WrongArgumentCount(n) == n # 3

\* if len(sys.argv) != 3: print usage; sys.exit(1)
CheckArguments ==
    /\ UNCHANGED nonGenVars
    /\ gpc = "args"
    /\ IF WrongArgumentCount(argc)
       THEN /\ stdout' = Append(stdout, UsageLine)
            /\ exit_status' = 1
            /\ gpc' = "exited"
       ELSE /\ gpc' = "parse"
            /\ UNCHANGED <<stdout, exit_status>>
    /\ UNCHANGED <<file, stem, functions, features, output, written, argc, reads>>

\* functions = parse_functions(contract_path)
ParseContract ==
    /\ UNCHANGED nonGenVars
    /\ gpc = "parse"
    /\ functions' = parse_functions(file)
    /\ reads' = reads + 1
    /\ stdout' = IF file.readable THEN stdout ELSE Append(stdout, ParseWarning)
    /\ gpc' = "analyze"
    /\ UNCHANGED <<file, stem, features, output, written, argc, exit_status>>

\* features = analyze_contract_features(contract_path)
AnalyzeContract ==
    /\ UNCHANGED nonGenVars
    /\ gpc = "analyze"
    /\ features' = analyze_contract_features(file)
    /\ reads' = reads + 1
    /\ stdout' = IF file.readable THEN stdout ELSE Append(stdout, AnalyzeWarning)
    /\ gpc' = "header"
    /\ UNCHANGED <<file, stem, functions, output, written, argc, exit_status>>

\* output = generate_test_header(contract_name)
EmitHeader ==
    /\ UNCHANGED nonGenVars
    /\ gpc = "header"
    /\ output' = generate_test_header(stem)
    /\ gpc' = "functions"
    /\ UNCHANGED <<file, stem, functions, features, written, argc, exit_status, stdout, reads>>

\* output += generate_function_tests(functions, features)
EmitFunctionTests ==
    /\ UNCHANGED nonGenVars
    /\ gpc = "functions"
    /\ output' = output \o generate_function_tests(functions, features)
    /\ gpc' = "features"
    /\ UNCHANGED <<file, stem, functions, features, written, argc, exit_status, stdout, reads>>

\* output += generate_feature_tests(features)
EmitFeatureTests ==
    /\ UNCHANGED nonGenVars
    /\ gpc = "features"
    /\ output' = output \o generate_feature_tests(features)
    /\ gpc' = "comprehensive"
    /\ UNCHANGED <<file, stem, functions, features, written, argc, exit_status, stdout, reads>>

\* output += generate_comprehensive_tests()
EmitComprehensive ==
    /\ UNCHANGED nonGenVars
    /\ gpc = "comprehensive"
    /\ output' = output \o generate_comprehensive_tests
    /\ gpc' = "write"
    /\ UNCHANGED <<file, stem, functions, features, written, argc, exit_status, stdout, reads>>

\* Path(output_path).parent.mkdir(...); Path(output_path).write_text(output)
\* and the two closing prints: the file is written and main() returns, or
\* mkdir or write_text raises and main() ends with the exception
WriteOutput ==
    /\ UNCHANGED nonGenVars
    /\ gpc = "write"
    /\ \/ /\ written' = output
          /\ stdout' = stdout \o <<GeneratedLine, DetectedLine(functions, features)>>
          /\ exit_status' = 0
          /\ gpc' = "done"
       \/ /\ written' = written
          /\ stdout' = stdout
          /\ exit_status' = 1
          /\ gpc' = "crashed"
    /\ UNCHANGED <<file, stem, functions, features, output, argc, reads>>

NextMain ==
    \/ CheckArguments
    \/ ParseContract
    \/ AnalyzeContract
    \/ EmitHeader
    \/ EmitFunctionTests
    \/ EmitFeatureTests
    \/ EmitComprehensive
    \/ WriteOutput

NextPure ==
    \/ EmitHeader
    \/ EmitFunctionTests
    \/ EmitFeatureTests
    \/ EmitComprehensive

InitGen == IdleSuite /\ IdleArgs /\ IdleLogging /\ IdleUpload /\ IdleRunner /\ IdleTemplate /\ InitMain

InitGenPure == IdleSuite /\ IdleArgs /\ IdleLogging /\ IdleUpload /\ IdleRunner /\ IdleTemplate /\ InitPure

SpecGen == InitGen /\ [][NextMain]_vars

SpecPure == InitGenPure /\ [][NextPure]_vars

(***************************************************************************)
(* A pytest session over scripts/test_template.py.                         *)
(*                                                                         *)
(* pytest runs the tests of TestAlgorandContract in definition order.  A   *)
(* class-scoped fixture is executed for the first test that requests it    *)
(* and its result, a value or the exception it raised, is cached for the   *)
(* later tests of the class.  pytest.skip raises Skipped, which is not an  *)
(* Exception, and a test whose fixture or body raises it is reported as    *)
(* skipped; any other exception of the body makes the test failed.         *)
(***************************************************************************)
Passed == [outcome |-> "passed", reason |-> ""]

Failed(reason) == [outcome |-> "failed", reason |-> reason]

Skipped(reason) == [outcome |-> "skipped", reason |-> reason]

Value(v) == [outcome |-> "value", reason |-> v]

\* what loading the contract module can do: it succeeds, raises SyntaxError,
\* or raises another Exception (missing file, missing dependency, ...)
LoadOutcomes == {"ok", "syntax_error", "exception"}

\* os.environ.get(name) of a variable that is not set
NotSet == "<unset>"

\* the values of os.environ.get(name) that "not value" and "value or ..."
\* treat as missing: None and the empty string
Falsy(value) == value \in {NotSet, ""}

\* as if the module file were always contract.py
module_basenameFixed(w) == "contract"

\* module_basename = os.environ.get('CONTRACT_MODULE') or 'contract'
module_basename(w) ==
    IF Falsy(w.CONTRACT_MODULE) THEN "contract" ELSE w.CONTRACT_MODULE

\* contract_path of import_contract(contract_name)
contract_path(w) ==
    "/app/contracts/" \o w.CONTRACT_NAME \o "/src/" \o module_basename(w) \o ".py"

\* as if import_contract only handled SyntaxError
import_contractSyntaxOnly(load) ==
    CASE load = "ok" -> Value("module")
      [] load = "syntax_error" -> Skipped("SyntaxError in contract module")
      [] OTHER -> Failed("Import error in contract module")

\* import_contract(contract_name)
import_contract(load) ==
    CASE load = "ok" -> Value("module")
      [] load = "syntax_error" -> Skipped("SyntaxError in contract module")
      [] OTHER -> Skipped("Import error in contract module")

\* the contract_module fixture
contract_module(w) ==
    IF Falsy(w.CONTRACT_NAME)
    THEN Skipped("No CONTRACT_NAME environment variable set")
    ELSE import_contract(w.load)

\* the states of the devnet: reachable; unreachable (the status probe
\* raises); answering but refusing the transaction; lost after the probe
DevnetStates == {"up", "down", "unfunded", "flaky"}

\* as if the probe's exception were left to propagate
algod_clientUnguarded(w) ==
    IF w.devnet = "down"
    THEN Failed("status")
    ELSE Value("client")

\* the algod_client fixture
algod_client(w) ==
    IF w.devnet = "down"
    THEN Skipped("Algod devnet not reachable; skipping integration-dependent tests")
    ELSE Value("client")

\* the fixtures each test requests, in the order pytest sets them up
FixturesOf(test) ==
    IF test = "test_app_creation"
    THEN <<"contract_module", "algod_client">>
    ELSE <<"contract_module">>

\* the result of a fixture for the next test: the cached one, or a fresh one
FixtureResult(name, c, w) ==
    IF c[name] # Unset THEN c[name]
    ELSE IF name = "contract_module" THEN contract_module(w) ELSE algod_client(w)

\* the fixtures a test gets set up: all of them, or those up to the first
\* that does not give a value
RECURSIVE SetUp(_, _, _)
SetUp(names, c, w) ==
    IF names = <<>> THEN <<>>
    ELSE IF FixtureResult(Head(names), c, w).outcome = "value"
         THEN <<Head(names)>> \o SetUp(Tail(names), c, w)
         ELSE <<Head(names)>>

\* the cache after the set-up of a test
CacheAfter(test, c, w) ==
    [name \in DOMAIN c |->
        IF \E k \in 1..Len(SetUp(FixturesOf(test), c, w)) :
               SetUp(FixturesOf(test), c, w)[k] = name
        THEN FixtureResult(name, c, w)
        ELSE c[name]]

\* the last fixture result of the set-up: a value when the body is to run
SetUpResult(test, c, w) ==
    FixtureResult(SetUp(FixturesOf(test), c, w)[Len(SetUp(FixturesOf(test), c, w))], c, w)

\* the probe made by the set-up of a test: algod_client executed afresh
Probes(test, c, w) ==
    IF /\ \E k \in 1..Len(SetUp(FixturesOf(test), c, w)) :
              SetUp(FixturesOf(test), c, w)[k] = "algod_client"
       /\ c["algod_client"] = Unset
    THEN <<"status">> ELSE <<>>

\* the load made by the set-up of a test: contract_module executed afresh
\* with a contract name
Loads(test, c, w) ==
    IF c["contract_module"] = Unset /\ ~Falsy(w.CONTRACT_NAME)
    THEN <<contract_path(w)>> ELSE <<>>

\* body of test_approval_program_compilation / test_clear_state_program_compilation
CompilationBody(program, name) ==
    CASE program = "absent" -> Skipped("No " \o name \o " found in contract")
      [] program = "raises" -> Failed("compileTeal")
      [] OTHER -> Passed

\* body of test_app_creation: its outcome and the calls it makes on the client
AppCreationBody(w) ==
    CASE w.approval = "absent" ->
             [result |-> Skipped("No approval_program found in contract"), calls |-> <<>>]
      [] w.devnet = "flaky" ->
             [result |-> Failed("suggested_params"), calls |-> <<"suggested_params">>]
      [] w.approval = "raises" \/ w.clear_state # "compiles" ->
             [result |-> Failed("compileTeal"), calls |-> <<"suggested_params">>]
      [] w.devnet = "unfunded" ->
             [result |-> Skipped("App creation requires funded account/devnet; skipping."),
              calls |-> <<"suggested_params", "send_transaction">>]
      [] OTHER ->
             [result |-> Passed,
              calls |-> <<"suggested_params", "send_transaction", "wait_for_confirmation">>]

\* body of test_opcode_count
OpcodeCountBody(w) ==
    CASE w.approval = "absent" -> Skipped("No approval_program found in contract")
      [] w.approval = "raises" -> Failed("compileTeal")
      [] w.opcode_count < 1000 -> Passed
      [] OTHER -> Failed("Too many opcodes")

\* body of test_state_access_performance
StateAccessBody(w) ==
    CASE w.approval = "absent" -> Skipped("No approval_program found in contract")
      [] w.approval = "raises" -> Failed("compileTeal")
      [] w.access_count < 30 -> Passed
      [] OTHER -> Failed("Too many state accesses")

\* what the body of a test does once its fixtures gave values
Body(test, w) ==
    CASE test = "test_approval_program_compilation" ->
             [result |-> CompilationBody(w.approval, "approval_program"), calls |-> <<>>]
      [] test = "test_clear_state_program_compilation" ->
             [result |-> CompilationBody(w.clear_state, "clear_state_program"), calls |-> <<>>]
      [] test = "test_app_creation" -> AppCreationBody(w)
      [] test = "test_opcode_count" -> [result |-> OpcodeCountBody(w), calls |-> <<>>]
      [] OTHER -> [result |-> StateAccessBody(w), calls |-> <<>>]

ProgramStates == {"absent", "compiles", "raises"}

Worlds ==
    [CONTRACT_NAME : {NotSet, "", "counter"}, CONTRACT_MODULE : {NotSet, "", "token"},
     load : LoadOutcomes, approval : ProgramStates,
     clear_state : ProgramStates, devnet : DevnetStates, opcode_count : {999, 1000},
     access_count : {29, 30}]

InitTemplate ==
    /\ tpc = 1
    /\ world \in Worlds
    /\ cache = [f \in {"contract_module", "algod_client"} |-> Unset]
    /\ report = [t \in TemplateTests |-> NotRun]
    /\ network = <<>>
    /\ loaded = <<>>

\* pytest runs one test: the set-up of its fixtures, then its body
RunTest(test) ==
    /\ UNCHANGED nonTmplVars
    /\ tpc \in 1..Len(TemplateTestOrder)
    /\ TemplateTestOrder[tpc] = test
    /\ cache' = CacheAfter(test, cache, world)
    /\ IF SetUpResult(test, cache, world).outcome = "value"
       THEN /\ report' = [report EXCEPT ![test] = Body(test, world).result]
            /\ network' = network \o Probes(test, cache, world) \o Body(test, world).calls
       ELSE /\ report' = [report EXCEPT ![test] = SetUpResult(test, cache, world)]
            /\ network' = network \o Probes(test, cache, world)
    /\ loaded' = loaded \o Loads(test, cache, world)
    /\ tpc' = tpc + 1
    /\ UNCHANGED world

ApprovalProgramCompilation ==
    /\ tpc = 1
    /\ RunTest("test_approval_program_compilation")

ClearStateProgramCompilation ==
    /\ tpc = 2
    /\ RunTest("test_clear_state_program_compilation")

AppCreation ==
    /\ tpc = 3
    /\ RunTest("test_app_creation")

OpcodeCount ==
    /\ tpc = 4
    /\ RunTest("test_opcode_count")

StateAccessPerformance ==
    /\ tpc = 5
    /\ RunTest("test_state_access_performance")

NextTemplate ==
    \/ ApprovalProgramCompilation
    \/ ClearStateProgramCompilation
    \/ AppCreation
    \/ OpcodeCount
    \/ StateAccessPerformance

InitTmpl == IdleSuite /\ IdleArgs /\ IdleLogging /\ IdleUpload /\ IdleRunner /\ IdleGenerator /\ InitTemplate

SpecTemplate == InitTmpl /\ [][NextTemplate]_vars

(***************************************************************************)
(* The upload service (Containers/evm/main.py).                            *)
(*                                                                         *)
(* A path is a sequence of segments below the root; a submitted file name  *)
(* is a path that is relative or absolute.                                 *)
(***************************************************************************)
MaxUploads == 2

\* UPLOAD_DIR = "/app/input"
UPLOAD_DIR == <<"app", "input">>

\* the directories of the container's file system
Directories == {<<>>, <<"app">>, <<"app", "input">>, <<"etc">>}

\* the file names a client submits
FileNames ==
    { [absolute |-> FALSE, segments |-> <<"c.sol">>],
      [absolute |-> FALSE, segments |-> <<"d.sol">>],
      [absolute |-> FALSE, segments |-> <<"sub", "c.sol">>],
      [absolute |-> FALSE, segments |-> <<"..", "c.sol">>],
      [absolute |-> FALSE, segments |-> <<"..", "input", "c.sol">>],
      [absolute |-> FALSE, segments |-> <<"..", "..", "etc", "c.sol">>],
      [absolute |-> FALSE, segments |-> <<"..">>],
      [absolute |-> FALSE, segments |-> <<>>],
      [absolute |-> TRUE, segments |-> <<"etc", "c.sol">>],
      [absolute |-> TRUE, segments |-> <<"app", "input", "c.sol">>] }

\* os.path.join(UPLOAD_DIR, filename): an absolute second component
\* replaces the first
PathJoin(dir, filename) ==
    IF filename.absolute THEN filename.segments ELSE dir \o filename.segments

Parent(path) == IF path = <<>> THEN <<>> ELSE SubSeq(path, 1, Len(path) - 1)

\* the directory the leading segments of a path lead to, from directory cur;
\* NoDirectory when one of them does not exist
NoDirectory == <<"?">>

RECURSIVE WalkTo(_, _)
WalkTo(cur, segments) ==
    IF segments = <<>> THEN cur
    ELSE LET next == IF Head(segments) = ".." THEN Parent(cur)
                     ELSE Append(cur, Head(segments))
         IN  IF next \in Directories THEN WalkTo(next, Tail(segments))
             ELSE NoDirectory

\* open(file_location, "wb"): the file that gets created or truncated, or
\* NoDirectory when open raises (the path names a directory, or its parent
\* does not exist)
OpenForWriting(path) ==
    IF path = <<>> THEN NoDirectory
    ELSE LET dir == WalkTo(<<>>, Parent(path))
             name == path[Len(path)]
         IN  IF dir = NoDirectory \/ name = ".." \/ Append(dir, name) \in Directories
             THEN NoDirectory
             ELSE Append(dir, name)

InitUpload ==
    /\ disk = {}
    /\ responses = <<>>

\* POST /upload
upload_file ==
    /\ UNCHANGED nonUploadVars
    /\ Len(responses) < MaxUploads
    /\ \E filename \in FileNames :
           LET file_location == PathJoin(UPLOAD_DIR, filename)
               written_file == OpenForWriting(file_location)
           IN  IF written_file = NoDirectory
               THEN /\ disk' = disk
                    /\ responses' = Append(responses,
                           [code |-> 500, submitted |-> filename,
                            written_file |-> NoDirectory,
                            body |-> [filename |-> filename, status |-> "error"]])
               ELSE /\ disk' = disk \cup {written_file}
                    /\ responses' = Append(responses,
                           [code |-> 200, submitted |-> filename,
                            written_file |-> written_file,
                            body |-> [filename |-> filename, status |-> "success"]])

NextUpload == upload_file

InitUp == IdleSuite /\ IdleArgs /\ IdleLogging /\ IdleRunner /\ IdleGenerator /\ IdleTemplate /\ InitUpload

SpecUpload == InitUp /\ [][NextUpload]_vars

(***************************************************************************)
(* Several AlgorandTestRunner instances in one process: setup_logging and  *)
(* the logger they obtain from logging.getLogger('algorand_test').         *)
(***************************************************************************)
MaxRunners == 2

MaxMessages == 3

ConsoleHandler == [kind |-> "stream", dir |-> ""]

FileHandler(dir) == [kind |-> "file", dir |-> dir]

\* setup_logging: the handlers of the logger after addHandler(ch) and
\* addHandler(fh)
HandlersAfterSetup(current, dir) ==
    current \o <<ConsoleHandler, FileHandler(dir)>>

\* Logger.info / Logger.error: every handler of the logger emits the record
RECURSIVE Emit(_, _, _)
Emit(hs, record, logs) ==
    IF hs = <<>> THEN logs
    ELSE IF Head(hs).kind = "file"
         THEN Emit(Tail(hs), record,
                   [logs EXCEPT ![Head(hs).dir] = Append(@, record)])
         ELSE Emit(Tail(hs), record, logs)

StreamCount(hs) == Cardinality({k \in 1..Len(hs) : hs[k].kind = "stream"})

RECURSIVE Repeat(_, _)
Repeat(record, n) == IF n = 0 THEN <<>> ELSE <<record>> \o Repeat(record, n - 1)

InitLogging ==
    /\ runners = <<>>
    /\ handlers = <<>>
    /\ logfiles = [d \in OutputDirs |-> <<>>]
    /\ console = <<>>
    /\ sent = 0

\* AlgorandTestRunner(contract_path, output_dir): __init__ calls setup_logging
ConstructRunner ==
    /\ UNCHANGED nonLoggingVars
    /\ Len(runners) < MaxRunners
    /\ \E dir \in OutputDirs :
           /\ runners' = Append(runners, dir)
           /\ handlers' = HandlersAfterSetup(handlers, dir)
    /\ UNCHANGED <<logfiles, console, sent>>

\* a runner writes one message through self.logger
LogMessage ==
    /\ UNCHANGED nonLoggingVars
    /\ sent < MaxMessages
    /\ \E r \in 1..Len(runners) :
           LET record == [by |-> r, n |-> sent + 1]
           IN  /\ logfiles' = Emit(handlers, record, logfiles)
               /\ console' = console \o Repeat(record, StreamCount(handlers))
    /\ sent' = sent + 1
    /\ UNCHANGED <<runners, handlers>>

NextLogging ==
    \/ ConstructRunner
    \/ LogMessage

InitLog == IdleSuite /\ IdleArgs /\ IdleRunner /\ IdleGenerator /\ IdleTemplate /\ IdleUpload /\ InitLogging

SpecLogging == InitLog /\ [][NextLogging]_vars

(***************************************************************************)
(* generate_function_args and generate_call_args on one argument text.     *)
(***************************************************************************)
MaxFragments == 2

\* the comma-separated fragments an argument text is made of
FragmentTexts ==
    { <<"to", ":", " ", "ContractAddress">>,
      <<" ", "amount", ":", " ", "u256">>,
      <<" ", "b", " ", ":", " ", "bool", " ">>,
      <<"c", ":", "Array">>,
      <<"a", ":", " ", "felt", "*">>,
      <<"x", ":", "bool", ":", "felt">>,
      <<"x", ":", " ", "bool", " ", "ContractAddress">>,
      <<":", "u128">>,
      <<"n", ":", "Felt252">>,
      <<" ", "a">>,
      <<" ">> }

RECURSIVE ArgStrings(_)
ArgStrings(n) ==
    IF n = 0 THEN {<<>>}
    ELSE LET shorter == ArgStrings(n - 1)
         IN  shorter \cup FragmentTexts
             \cup {t \o <<",">> \o fragment :
                     t \in shorter \ {<<>>}, fragment \in FragmentTexts}

InitArgs ==
    /\ apc = "function_args"
    /\ args_input \in ArgStrings(MaxFragments)
    /\ mock_args = NotCalled
    /\ call_args = NotCalled

\* {generate_function_args(args)} in the basic-call template
CallGenerateFunctionArgs ==
    /\ UNCHANGED nonArgsVars
    /\ apc = "function_args"
    /\ mock_args' = [called |-> TRUE, list |-> FunctionArgList(args_input),
                     text |-> generate_function_args(args_input)]
    /\ apc' = "call_args"
    /\ UNCHANGED <<args_input, call_args>>

\* {generate_call_args(args)} in the basic-call template
CallGenerateCallArgs ==
    /\ UNCHANGED nonArgsVars
    /\ apc = "call_args"
    /\ call_args' = [called |-> TRUE, list |-> CallArgList(args_input),
                     text |-> generate_call_args(args_input)]
    /\ apc' = "done"
    /\ UNCHANGED <<args_input, mock_args>>

NextArgs ==
    \/ CallGenerateFunctionArgs
    \/ CallGenerateCallArgs

InitArg == IdleSuite /\ IdleRunner /\ IdleGenerator /\ IdleTemplate /\ IdleUpload /\ IdleLogging /\ InitArgs

SpecArgs == InitArg /\ [][NextArgs]_vars

(***************************************************************************)
(* One test of the generated suite, run by pytest against a contract: the  *)
(* function-scoped contract fixture deploys, then the test body runs.      *)
(* What the test's try block ends with is "completed" or the class of the  *)
(* exception it raised; pytest.raises reports a missing exception with     *)
(* Failed, which derives from BaseException and passes through             *)
(* "except Exception".                                                     *)
(***************************************************************************)

\* as if the alternate path spelling were tried before the call without
\* constructor calldata
DeploymentShapesPathFirst ==
    << [source |-> "./src/contract.cairo", constructor_calldata |-> TRUE],
       [source |-> "src/contract.cairo", constructor_calldata |-> FALSE],
       [source |-> "./src/contract.cairo", constructor_calldata |-> FALSE] >>

\* the three starknet_state.deploy calls of the contract fixture, in order
DeploymentShapes ==
    << [source |-> "./src/contract.cairo", constructor_calldata |-> TRUE],
       [source |-> "./src/contract.cairo", constructor_calldata |-> FALSE],
       [source |-> "src/contract.cairo", constructor_calldata |-> FALSE] >>

\* the fixture raised the exception of its last deploy call
DeployRaised == [outcome |-> "raised", reason |-> "deploy"]

\* hasattr(contract, name)
hasattr(inst, name) == name # inst.hidden

\* the classes "except Exception" catches
CaughtByExceptException == {"AssertionError", "Exception"}

\* the contracts a generated test can meet: what each deploy call does, the
\* one function name the instance lacks (if any), what a nominal call or
\* invocation does, what a zero-amount invocation does, and what one
\* increment_counter adds to the counter
Instances ==
    [deploy : [1..3 -> {"ok", "raises"}],
     hidden : {"none"} \cup {f.func_name : f \in PureFunctions},
     call : {"returns", "none", "raises"},
     zero : {"raises", "returns"},
     step : {0, 1, 2}]

\* the try block of test_{func_name}_basic_call
BasicCallTry(block, inst) ==
    IF ~hasattr(inst, block.func_name) THEN "AssertionError"
    ELSE IF inst.call = "raises" THEN "Exception"
    ELSE IF inst.call = "none" THEN "AssertionError"
    ELSE "completed"

\* as if the basic-call test had no except clause
test_basic_callUnguarded(block, inst) ==
    IF BasicCallTry(block, inst) = "completed" THEN "passed" ELSE "failed"

\* test_{func_name}_basic_call: the handler asserts hasattr again
test_basic_call(block, inst) ==
    LET raised == BasicCallTry(block, inst)
    IN  IF raised = "completed" THEN "passed"
        ELSE IF raised \in CaughtByExceptException
        THEN IF hasattr(inst, block.func_name) THEN "passed" ELSE "failed"
        ELSE "failed"

\* the try block of test_{func_name}_edge_cases
EdgeCasesTry(block, inst) ==
    IF NominalCall(block) # "none" /\ ~hasattr(inst, block.func_name)
    THEN "Exception"
    ELSE IF NominalCall(block) # "none" /\ inst.call = "raises"
    THEN "Exception"
    ELSE IF ExpectsZeroAmountFailure(block) /\ inst.zero = "returns"
    THEN "Failed"
    ELSE "completed"

\* test_{func_name}_edge_cases: the handler is "assert True"
test_edge_cases(block, inst) ==
    LET raised == EdgeCasesTry(block, inst)
    IN  IF raised = "completed" THEN "passed"
        ELSE IF raised \in CaughtByExceptException THEN "passed"
        ELSE "failed"

\* the try block of test_contract_state_consistency
StateConsistencyTry(inst) ==
    IF ~(hasattr(inst, "get_counter") /\ hasattr(inst, "increment_counter"))
    THEN "completed"
    ELSE IF inst.call # "returns" THEN "Exception"
    ELSE LET initial == 0
             final == initial + inst.step + inst.step
         IN  IF final = initial + 2 THEN "completed" ELSE "AssertionError"

\* test_contract_state_consistency: the handler is "assert True"
test_contract_state_consistency(inst) ==
    LET raised == StateConsistencyTry(inst)
    IN  IF raised = "completed" THEN "passed"
        ELSE IF raised \in CaughtByExceptException THEN "passed"
        ELSE "failed"

InitSuite ==
    /\ spc = "deploy_1"
    /\ instance \in Instances
    /\ generated \in {FunctionBlocks(f) : f \in PureFunctions}
                     \cup {<<generate_comprehensive_tests[1]>>}
    /\ selected \in 1..Len(generated)
    /\ attempts = <<>>
    /\ contract_fixture = Unset
    /\ verdict = "not_run"

\* one deploy call of the contract fixture: return the contract, or go on
\* to the except clause; the last call's exception leaves the fixture
Deploy(k) ==
    /\ UNCHANGED nonSuiteVars
    /\ attempts' = Append(attempts, DeploymentShapes[k])
    /\ IF instance.deploy[k] = "ok"
       THEN /\ contract_fixture' = Value(DeploymentShapes[k].source)
            /\ spc' = "test"
            /\ UNCHANGED verdict
       ELSE IF k < Len(DeploymentShapes)
       THEN /\ spc' = IF k = 1 THEN "deploy_2" ELSE "deploy_3"
            /\ UNCHANGED <<contract_fixture, verdict>>
       ELSE /\ contract_fixture' = DeployRaised
            /\ verdict' = "error"
            /\ spc' = "done"
    /\ UNCHANGED <<instance, generated, selected>>

DeployWithConstructorCalldata ==
    /\ spc = "deploy_1"
    /\ Deploy(1)

DeployWithoutConstructorCalldata ==
    /\ spc = "deploy_2"
    /\ Deploy(2)

DeployAlternatePath ==
    /\ spc = "deploy_3"
    /\ Deploy(3)

RunBasicCall ==
    /\ UNCHANGED nonSuiteVars
    /\ spc = "test"
    /\ generated[selected].kind = "basic_call"
    /\ verdict' = test_basic_call(generated[selected], instance)
    /\ spc' = "done"
    /\ UNCHANGED <<instance, generated, selected, attempts, contract_fixture>>

RunEdgeCases ==
    /\ UNCHANGED nonSuiteVars
    /\ spc = "test"
    /\ generated[selected].kind = "edge_cases"
    /\ verdict' = test_edge_cases(generated[selected], instance)
    /\ spc' = "done"
    /\ UNCHANGED <<instance, generated, selected, attempts, contract_fixture>>

RunStateConsistency ==
    /\ UNCHANGED nonSuiteVars
    /\ spc = "test"
    /\ generated[selected].kind = "test_contract_state_consistency"
    /\ verdict' = test_contract_state_consistency(instance)
    /\ spc' = "done"
    /\ UNCHANGED <<instance, generated, selected, attempts, contract_fixture>>

NextSuite ==
    \/ DeployWithConstructorCalldata
    \/ DeployWithoutConstructorCalldata
    \/ DeployAlternatePath
    \/ RunBasicCall
    \/ RunEdgeCases
    \/ RunStateConsistency

InitRun == IdleRunner /\ IdleGenerator /\ IdleTemplate /\ IdleUpload /\ IdleLogging /\ IdleArgs /\ InitSuite

SpecSuite == InitRun /\ [][NextSuite]_vars

(***************************************************************************)
(* Properties of run_tests.                                                *)
(***************************************************************************)
\* stage i of the trace raised
RaisedAt(i) == trace[i].outcome.kind = "raise"

SomeStageRaised == \E i \in 1..Len(trace) : RaisedAt(i)

TealRaised == \E i \in 1..Len(trace) : trace[i].stage = "teal" /\ RaisedAt(i)

NonZeroAt(i) == trace[i].outcome.kind = "exit" /\ trace[i].outcome.code # 0

\* C1: when loading the contract module or compiling its approval program
\* raises inside the TEAL stage, run_tests has written an ERROR entry whose
\* text contains str(exception) and has raised that same exception to its
\* caller; it has not returned normally.
C1_TealFailureLoggedAndReraised ==
    \A i \in 1..Len(trace) :
        (trace[i].stage = "teal" /\ RaisedAt(i)) =>
            /\ pc = "raised"
            /\ propagated = trace[i].outcome.exc
            /\ \E j \in 1..Len(log) :
                   /\ log[j].level = "ERROR"
                   /\ Contains(log[j], Str(trace[i].outcome.exc))

C1_Witness ==
    /\ pc = "raised"
    /\ \E i \in 1..Len(trace) :
           /\ trace[i].stage = "teal"
           /\ RaisedAt(i)
           /\ trace[i].outcome.step = "compile"

\* C2 as claimed: only a failure of the TEAL stage is fatal, so a run that
\* raised is a run whose TEAL stage raised.
C2_OnlyTealFailureIsFatal == pc = "raised" => TealRaised

\* C2 as amended: run_tests returns normally exactly when no stage raises an
\* exception; an exception raised in stages 1-6 is logged and re-raised like a
\* TEAL failure, and the TEAL stage is then never executed; exit codes do not
\* matter.  In particular a run whose TEAL stage was executed and did not
\* raise returns normally.
C2_ReturnsIffNoStageRaises ==
    /\ Terminated => ((pc = "returned") <=> ~SomeStageRaised)
    /\ pc = "raised" =>
           /\ RaisedAt(Len(trace))
           /\ propagated = trace[Len(trace)].outcome.exc
           /\ (trace[Len(trace)].stage # "teal" =>
                   \A i \in 1..Len(trace) : trace[i].stage # "teal")
    /\ \A i \in 1..Len(trace) :
           (trace[i].stage = "teal" /\ ~RaisedAt(i)) => pc = "returned"

C2_Witness ==
    /\ pc = "returned"
    /\ \E i \in 1..Len(trace) : trace[i].stage = "unit" /\ NonZeroAt(i)
    /\ \E i \in 1..Len(trace) : trace[i].stage = "teal" /\ ~RaisedAt(i)

\* C3: a non-zero exit code of bandit, mypy or flake8, or a non-zero result of
\* a pytest pass, never stops run_tests: the stage that follows in the fixed
\* order is the next one executed, and a run that raised did so because its
\* last stage raised an exception, not because of an exit code.
C3_NonZeroExitNeverStops ==
    /\ \A i \in 1..Len(trace) :
           NonZeroAt(i) =>
               IF i < Len(trace) THEN trace[i + 1].stage = StageOrder[i + 1]
               ELSE pc = StageOrder[i + 1]
    /\ pc = "raised" => ~NonZeroAt(Len(trace))
    /\ (pc = "returned" /\ \E i \in 1..Len(trace) : NonZeroAt(i)) =>
           Len(trace) = Len(StageOrder)

C3_Witness ==
    /\ pc = "returned"
    /\ \A s \in {"unit", "integration", "performance", "bandit", "mypy", "flake8"} :
           \E i \in 1..Len(trace) : trace[i].stage = s /\ NonZeroAt(i)

\* C4: the stages run strictly in the fixed order generate, unit,
\* integration, performance, bandit, mypy, flake8, TEAL: the stages executed
\* so far are always an initial part of that order, the stage to run next is
\* the one that follows it, and a run that reaches the TEAL stage has executed
\* each of the earlier stages exactly once.
C4_StagesInFixedOrder ==
    /\ Len(trace) <= Len(StageOrder)
    /\ \A i \in 1..Len(trace) : trace[i].stage = StageOrder[i]
    /\ pc \notin {"start", "returned", "raised"} => pc = StageOrder[Len(trace) + 1]
    /\ pc = "teal" => Len(trace) = Len(StageOrder) - 1
    /\ pc = "returned" => Len(trace) = Len(StageOrder)

C4_Witness == pc = "teal" /\ Len(trace) = 7 /\ trace[7].stage = "flake8"

\* the tests of a pass's own category
Category(p) ==
    IF p = "unit"
    THEN {"test_approval_program_compilation", "test_clear_state_program_compilation"}
    ELSE {SuiteTests[i].name : i \in {j \in 1..Len(SuiteTests) : p \in SuiteTests[j].marks}}

\* C5: each pytest pass executes only the tests of its own category.
C5_PassRunsOnlyOwnCategory ==
    \A p \in PytestPasses : executed[p] \subseteq Category(p)

(***************************************************************************)
(* Properties of the StarkNet generator.                                   *)
(***************************************************************************)
\* the suite main() builds: header, function tests, feature tests, closing
FullSuite(funcs, feats, name) ==
    generate_test_header(name) \o generate_function_tests(funcs, feats)
    \o generate_feature_tests(feats) \o generate_comprehensive_tests

Kinds(suite) == [k \in 1..Len(suite) |-> suite[k].kind]

\* parse_functions has returned
Parsed == gpc \notin {"args", "exited", "parse"}

\* analyze_contract_features has returned
Analyzed == Parsed /\ gpc # "analyze"

FunctionTestsEmitted == gpc \in {"features", "comprehensive", "write", "done", "crashed"}

\* neither function-declaration pattern matches anywhere in the text
NoDeclarationMatches(t) ==
    \A i \in 1..Len(t) : ~ModernAt(t, i).ok /\ ~LegacyAt(t, i).ok

Fragments(args_string) == SplitOn(args_string, ",")

NonEmptyFragments(args_string) ==
    Cardinality({k \in 1..Len(Fragments(args_string)) :
                    Strip(Fragments(args_string)[k]) # <<>>})

\* the records of functions that come from the legacy pattern, each with the
\* argument text of its declaration
LegacyDeclarations == FindAllLegacy(file.text, 1)

LegacyOffset == Len(FindAllModern(file.text, 1))

\* C7: for every declaration the legacy pattern matches, the
\* number of parameters the generator derives from it is the number of
\* non-empty comma-separated fragments of its argument text.
C7_ParameterCountIsNonEmptyFragments ==
    (file.readable /\ Parsed) =>
        \A k \in 1..Len(LegacyDeclarations) :
            LET f == functions[LegacyOffset + k]
            IN  /\ Len(CallArgList(f.args)) =
                       NonEmptyFragments(LegacyDeclarations[k].args)
                /\ Len(FunctionArgList(f.args)) =
                       NonEmptyFragments(LegacyDeclarations[k].args)

\* C8 as claimed: every extracted function has a basic-call block, and an
\* edge-case block (asserting failure on a zero-amount invocation) is emitted
\* for a function named transfer or mint and for no other function name.
C8_EdgeCasesOnlyForTransferAndMint ==
    FunctionTestsEmitted =>
        /\ \A k \in 1..Len(functions) :
               \E j \in 1..Len(output) :
                   /\ output[j].kind = "basic_call"
                   /\ output[j].func_name = functions[k].func_name
        /\ \A j \in 1..Len(output) :
               output[j].kind = "edge_cases" =>
                   output[j].func_name \in {"transfer", "mint"}

\* C8 as amended: every extracted function has a basic-call block; an
\* edge-case block is emitted for a function named transfer, mint or
\* increment_by and for no other name, and only the blocks of transfer and
\* mint expect the zero-amount invocation to fail, the block of increment_by
\* makes its nominal call alone.
C8_EdgeCasesForThreeNames ==
    FunctionTestsEmitted =>
        /\ Cardinality({j \in 1..Len(output) : output[j].kind = "basic_call"})
               = Len(functions)
        /\ \A k \in 1..Len(functions) :
               /\ \E j \in 1..Len(output) :
                      /\ output[j].kind = "basic_call"
                      /\ output[j].func_name = functions[k].func_name
               /\ functions[k].func_name \in {"transfer", "mint", "increment_by"} <=>
                      \E j \in 1..Len(output) :
                          /\ output[j].kind = "edge_cases"
                          /\ output[j].func_name = functions[k].func_name
        /\ \A j \in 1..Len(output) :
               output[j].kind = "edge_cases" =>
                   /\ \E k \in 1..Len(functions) :
                          functions[k].func_name = output[j].func_name
                   /\ ExpectsZeroAmountFailure(output[j]) <=>
                          output[j].func_name # "increment_by"
                   /\ NominalCall(output[j]) # "none"

C8_Witness ==
    /\ gpc = "done"
    /\ \E j \in 1..Len(written) :
           written[j].kind = "edge_cases" /\ written[j].func_name = "increment_by"
    /\ \E j \in 1..Len(written) :
           written[j].kind = "basic_call" /\ written[j].func_name = "get_counter"
    /\ ~\E j \in 1..Len(written) :
           written[j].kind = "edge_cases" /\ written[j].func_name = "get_counter"

\* the FeatureSet with one flag flipped
Flip(feats, flag) ==
    [keys |-> feats.keys \cup {flag},
     on |-> IF flag \in feats.on THEN feats.on \ {flag} ELSE feats.on \cup {flag}]

\* the suite without the test block of one flag
WithoutBlockOf(suite, flag) == SelectSeq(suite, LAMBDA b : b.flag # flag)

BlocksOf(suite, flag) == Cardinality({k \in 1..Len(suite) : suite[k].flag = flag})

\* C10: flipping exactly one flag of the FeatureSet changes the generated
\* suite at most by the presence of that flag's own test block: with that
\* block set aside, the suite generated for the flipped FeatureSet is the
\* suite generated for the original one, block for block.
C10_FlagFlipChangesOnlyOwnBlock ==
    gpc = "write" =>
        /\ output = FullSuite(functions, features, stem)
        /\ \A flag \in Flags :
               LET flipped == FullSuite(functions, Flip(features, flag), stem)
               IN  /\ WithoutBlockOf(flipped, flag) = WithoutBlockOf(output, flag)
                   /\ BlocksOf(flipped, flag) <= 1
                   /\ BlocksOf(output, flag) <= 1

C10_Witness ==
    /\ gpc = "write"
    /\ Len(functions) = 2
    /\ functions[1].func_name = "transfer"
    /\ features.on = {"has_storage", "has_transfers"}
    /\ BlocksOf(output, "has_storage") = 1
    /\ BlocksOf(FullSuite(functions, Flip(features, "has_storage"), stem),
                "has_storage") = 0

\* the part of the suite a block belongs to
Part(block) ==
    CASE block.kind = "header" -> 0
      [] block.kind \in {"basic_call", "edge_cases"} -> 1
      [] block.flag # "" -> 2
      [] OTHER -> 3

BasicCalls(suite) == SelectSeq(suite, LAMBDA b : b.kind = "basic_call")

\* C11: the suite is laid out as the header, then the blocks of the
\* functions with one basic-call block per function in extraction order,
\* then the feature blocks, then the closing blocks; for functions
\* [get_counter, increment_counter] with has_storage true the get_counter
\* basic-call block (a read-only call) precedes the increment_counter
\* basic-call block (a state-changing invocation), which precedes the
\* storage-functionality block.
C11_SuiteLayout ==
    gpc = "write" =>
        /\ output[1].kind = "header"
        /\ \A j \in 2..Len(output) : Part(output[j - 1]) <= Part(output[j])
        /\ \A j \in 2..Len(output) : output[j].kind # "header"
        /\ Len(BasicCalls(output)) = Len(functions)
        /\ \A k \in 1..Len(functions) :
               BasicCalls(output)[k].func_name = functions[k].func_name
        /\ SelectSeq(output, LAMBDA b : Part(b) = 2) = generate_feature_tests(features)
        /\ SelectSeq(output, LAMBDA b : Part(b) = 3) = generate_comprehensive_tests
        /\ ( /\ Len(functions) = 2
             /\ functions[1].func_name = "get_counter"
             /\ functions[2].func_name = "increment_counter"
             /\ Get(features, "has_storage") ) =>
               /\ output[2].kind = "basic_call" /\ output[2].func_name = "get_counter"
               /\ Dispatch(output[2]) = "call"
               /\ output[3].kind = "basic_call" /\ output[3].func_name = "increment_counter"
               /\ Dispatch(output[3]) = "invoke"
               /\ output[4].kind = "test_storage_functionality"

C11_Witness ==
    /\ gpc = "write"
    /\ Len(functions) = 2
    /\ functions[1].func_name = "get_counter"
    /\ functions[2].func_name = "increment_counter"
    /\ features.on = {"has_storage"}
    /\ Len(output) = 9
    /\ output[4].kind = "test_storage_functionality"

C13_FunctionNamesUnique ==
    /\ Parsed =>
           \A i, j \in 1..Len(functions) :
               i # j => functions[i].func_name # functions[j].func_name
    /\ \A i, j \in 1..Len(output) :
           (i # j /\ output[i].kind = "basic_call" /\ output[j].kind = "basic_call")
               => output[i].func_name # output[j].func_name

\* C14: when the generator is started with a number of arguments other than
\* two, it prints the usage line and exits with status 1 before it reads the
\* input contract and before it creates or writes an output file.
C14_WrongArgumentCountExitsWithUsage ==
    /\ (argc # 3 /\ gpc # "args") =>
           /\ gpc = "exited"
           /\ exit_status = 1
           /\ stdout = <<UsageLine>>
           /\ reads = 0
           /\ written = <<>>
           /\ output = <<>>
    /\ gpc = "exited" => argc # 3
    /\ (argc = 3 /\ gpc # "args") => UsageLine \notin {stdout[k] : k \in 1..Len(stdout)}

C14_Witness ==
    /\ argc = 4
    /\ gpc = "exited"
    /\ exit_status = 1
    /\ file.readable
    /\ file.text # <<>>

(***************************************************************************)
(* Properties of the pytest session over test_template.py.                 *)
(***************************************************************************)
\* loading the contract module is attempted and raises
LoadRaises(w) == ~Falsy(w.CONTRACT_NAME) /\ w.load # "ok"

HasRun(test) == report[test] # NotRun

SessionFinished == tpc = Len(TemplateTestOrder) + 1

\* C15: whenever loading the contract module raises a SyntaxError or another
\* Exception, import_contract ends in a pytest skip, never in a failure or an
\* error, and every test of TestAlgorandContract is reported as skipped.
C15_LoadFailureSkipsEveryTest ==
    LoadRaises(world) =>
        /\ import_contract(world.load).outcome = "skipped"
        /\ cache["contract_module"] \in {Unset, import_contract(world.load)}
        /\ cache["algod_client"] = Unset
        /\ \A test \in TemplateTests :
               HasRun(test) => report[test] = import_contract(world.load)
        /\ SessionFinished =>
               \A test \in TemplateTests : report[test].outcome = "skipped"

C15_Witness ==
    /\ SessionFinished
    /\ world.CONTRACT_NAME = "counter"
    /\ world.load = "exception"
    /\ world.approval = "compiles"
    /\ \A test \in TemplateTests :
           report[test] = Skipped("Import error in contract module")

\* what pytest reports for a test that requests contract_module alone
OutcomeWithContractModule(test, w) ==
    IF contract_module(w).outcome = "value"
    THEN Body(test, w).result
    ELSE contract_module(w)

\* C16: when the devnet status probe raises, every test that depends on
\* algod_client is skipped before it makes another call on the client, and
\* the tests that do not depend on algod_client (the two compilation tests
\* and the two performance tests) get the outcome they get with any other
\* state of the devnet.
C16_UnreachableDevnetSkipsDependentTests ==
    /\ world.devnet = "down" =>
           /\ HasRun("test_app_creation") =>
                  report["test_app_creation"].outcome = "skipped"
           /\ \A k \in 1..Len(network) : network[k] = "status"
           /\ Len(network) <= 1
           /\ cache["algod_client"].outcome \in {"unset", "skipped"}
    /\ \A test \in TemplateTests \ {"test_app_creation"} :
           HasRun(test) =>
               \A d \in DevnetStates :
                   report[test] = OutcomeWithContractModule(test, [world EXCEPT !.devnet = d])

C16_Witness ==
    /\ SessionFinished
    /\ world.devnet = "down"
    /\ world.CONTRACT_NAME = "counter"
    /\ world.load = "ok"
    /\ world.approval = "compiles"
    /\ world.opcode_count = 1000
    /\ network = <<"status">>
    /\ report["test_app_creation"] =
           Skipped("Algod devnet not reachable; skipping integration-dependent tests")
    /\ report["test_approval_program_compilation"] = Passed
    /\ report["test_opcode_count"] = Failed("Too many opcodes")

(***************************************************************************)
(* Properties of the upload service.                                       *)
(***************************************************************************)
\* path lies below directory dir
IsDescendant(path, dir) ==
    /\ Len(path) > Len(dir)
    /\ SubSeq(path, 1, Len(dir)) = dir

\* C17: for every file name accepted by POST /upload, the file is written
\* inside the upload directory /app/input, and the response is
\* {filename: the submitted name, status: "success"}.
C17_UploadStaysInUploadDir ==
    /\ \A k \in 1..Len(responses) :
           responses[k].code = 200 =>
               /\ IsDescendant(responses[k].written_file, UPLOAD_DIR)
               /\ responses[k].body = [filename |-> responses[k].submitted,
                                       status |-> "success"]
    /\ \A path \in disk : IsDescendant(path, UPLOAD_DIR)

(***************************************************************************)
(* Properties of the runners' logging.                                     *)
(***************************************************************************)
Occurrences(seq, record) == Cardinality({k \in 1..Len(seq) : seq[k] = record})

\* C18: runner instances share no mutable state other than the files under
\* their output directories: however many runners are constructed, each
\* message of a runner is written once to the console and once to the
\* test.log of that runner's output directory, and to no other test.log.
C18_RunnersShareNoLoggingState ==
    \A r \in 1..Len(runners) : \A n \in 1..sent :
        LET record == [by |-> r, n |-> n]
        IN  (\E d \in OutputDirs : Occurrences(logfiles[d], record) > 0) =>
                /\ Occurrences(console, record) = 1
                /\ Occurrences(logfiles[runners[r]], record) = 1
                /\ \A d \in OutputDirs \ {runners[r]} :
                       Occurrences(logfiles[d], record) = 0

(***************************************************************************)
(* Properties of generate_feature_tests and of the basic-call dispatch.    *)
(***************************************************************************)
FeatureTestsEmitted == gpc \in {"comprehensive", "write", "done", "crashed"}

\* C19 as claimed: for each of the nine flags, generate_feature_tests emits
\* one test block if the flag is true and none if it is false.
C19_OneBlockPerTrueFlag ==
    FeatureTestsEmitted =>
        \A flag \in Flags :
            BlocksOf(output, flag) = IF Get(features, flag) THEN 1 ELSE 0

\* the flags generate_feature_tests has a block for, in the order of the blocks
FlagsWithBlock == <<"has_storage", "has_events", "has_access_control">>

\* C19 as amended: generate_feature_tests emits one fixed test block for each
\* of has_storage, has_events and has_access_control that is true, in that
\* order, and no block for one that is false; the other six flags
\* (constructor, ownable, pausable, transfers, balances, minting) give no
\* block whether true or false.
C19_BlocksForThreeFlagsOnly ==
    FeatureTestsEmitted =>
        /\ \A flag \in Flags :
               BlocksOf(output, flag) =
                   IF Get(features, flag)
                      /\ \E k \in 1..Len(FlagsWithBlock) : FlagsWithBlock[k] = flag
                   THEN 1 ELSE 0
        /\ \A i, j \in 1..Len(output) :
               (i < j /\ output[i].flag # "" /\ output[j].flag # "") =>
                   \E a, b \in 1..Len(FlagsWithBlock) :
                       /\ a < b
                       /\ FlagsWithBlock[a] = output[i].flag
                       /\ FlagsWithBlock[b] = output[j].flag
        /\ \A i \in 1..Len(output) :
               /\ output[i].flag = "has_storage" =>
                      output[i].kind = "test_storage_functionality"
               /\ output[i].flag = "has_events" => output[i].kind = "test_event_emission"
               /\ output[i].flag = "has_access_control" =>
                      output[i].kind = "test_access_control"

C19_Witness ==
    /\ gpc = "write"
    /\ features.on = {"has_events", "has_pausable"}
    /\ BlocksOf(output, "has_events") = 1
    /\ BlocksOf(output, "has_pausable") = 0
    /\ BlocksOf(output, "has_storage") = 0

\* the function names of the model that get the read-only path by their
\* name: those containing 'get_' and those of the fixed list
ReadOnlyByName ==
    {"get_counter", "get_owner", "budget_of", "balance_of", "total_supply",
     "is_paused", "foo"}

\* C20: in the basic-call block of a function the read-only path (.call())
\* is taken exactly when the function's visibility tag is "view", or its name
\* contains "get_", or its name is one of balance_of, total_supply,
\* is_paused, foo; in every other case the state-changing path (.invoke())
\* is taken, and never both.
C20_ReadOnlyDispatch ==
    FunctionTestsEmitted =>
        /\ \A j \in 1..Len(output) :
               output[j].kind = "basic_call" =>
                   /\ Dispatch(output[j]) \in {"call", "invoke"}
                   /\ Dispatch(output[j]) = "call" <=>
                          \/ output[j].func_type = "view"
                          \/ output[j].func_name \in ReadOnlyByName
        /\ \A k \in 1..Len(functions) :
               \E j \in 1..Len(output) :
                   /\ output[j].kind = "basic_call"
                   /\ output[j].func_name = functions[k].func_name
                   /\ output[j].func_type = functions[k].func_type

C20_Witness ==
    /\ gpc = "done"
    /\ Len(functions) = 2
    /\ \E j \in 1..Len(written) :
           /\ written[j].kind = "basic_call"
           /\ written[j].func_name = "budget_of"
           /\ written[j].func_type = "external"
           /\ Dispatch(written[j]) = "call"
    /\ \E j \in 1..Len(written) :
           /\ written[j].kind = "basic_call"
           /\ written[j].func_name = "transfer"
           /\ written[j].func_type = "external"
           /\ Dispatch(written[j]) = "invoke"

(***************************************************************************)
(* Properties of parse_functions' result order and of the mock values.     *)
(***************************************************************************)
ModernDeclarations == FindAllModern(file.text, 1)

\* the matches of one pattern are in source order: each ends before the next
InSourceOrder(ms) == \A k \in 1..(Len(ms) - 1) : ms[k].end < ms[k + 1].end

\* C21: the sequence returned by parse_functions lists all matches of the
\* modern pattern first, in source order, followed by all matches of the
\* legacy pattern, in source order; a legacy declaration that appears earlier
\* in the source than a modern declaration still comes later in the result.
C21_ModernMatchesBeforeLegacy ==
    (file.readable /\ Parsed) =>
        LET modern == ModernDeclarations
            legacy == LegacyDeclarations
            offset == Len(modern)
        IN  /\ Len(functions) = Len(modern) + Len(legacy)
            /\ InSourceOrder(modern)
            /\ InSourceOrder(legacy)
            /\ \A k \in 1..Len(modern) :
                   /\ functions[k].func_name = modern[k].func_name
                   /\ functions[k].returns = modern[k].returns
                   /\ functions[k].func_type = "external"
            /\ \A k \in 1..Len(legacy) :
                   /\ functions[offset + k].func_name = legacy[k].func_name
                   /\ functions[offset + k].func_type = legacy[k].func_type
                   /\ functions[offset + k].args = legacy[k].args

C21_Witness ==
    /\ gpc = "done"
    /\ Len(ModernDeclarations) = 1
    /\ Len(LegacyDeclarations) = 1
    /\ LegacyDeclarations[1].end < ModernDeclarations[1].end
    /\ functions[1].func_name = "get_counter"
    /\ functions[2].func_name = "transfer"
    /\ functions[2].func_type = "external"
    /\ written[2].func_name = "get_counter"

\* the fragments of an argument text that contain a colon, in order
TypedFragments(text) ==
    SelectSeq(SplitOn(text, ","), LAMBDA f : \E j \in 1..Len(f) : f[j] = ":")

\* the text of a fragment before its first colon, stripped
ParamName(fragment) ==
    LET colon == Min({j \in 1..Len(fragment) : fragment[j] = ":"})
    IN  Strip(Slice(fragment, 1, colon - 1))

\* the text of a fragment after its first colon, stripped
TypeTag(fragment) ==
    LET colon == Min({j \in 1..Len(fragment) : fragment[j] = ":"})
    IN  Strip(Slice(fragment, colon + 1, Len(fragment)))

\* the lower-cased type tag contains one of the keywords
Mentions(typ, keywords) ==
    \E j \in 1..Len(typ) : \E k \in keywords : InLower(k, typ[j])

\* the entries of a list follow the rule order on the type tags of text
FollowsRuleOrder(list, text) ==
    LET typed == TypedFragments(text)
    IN  /\ Len(list) = Len(typed)
        /\ \A k \in 1..Len(list) :
             LET typ == TypeTag(typed[k])
                 value == list[k][Len(list[k])]
                 numeric == Mentions(typ, {"felt", "u256", "u128"})
                 address == Mentions(typ, {"address"})
                 boolean == Mentions(typ, {"bool"})
             IN  /\ value \in {"123", "owner_address", "True", "0"}
                 /\ value = "123" <=> numeric
                 /\ value = "owner_address" <=> ~numeric /\ address
                 /\ value = "True" <=> ~numeric /\ ~address /\ boolean
                 /\ value = "0" <=> ~numeric /\ ~address /\ ~boolean

\* C22: for every fragment "name: type" the mock value is decided by the
\* first matching rule on the lower-cased type, in the order felt/u256/u128
\* -> 123, address -> owner_address, bool -> True, anything else -> 0; every
\* type tag gets exactly one value, and the type is everything after the
\* fragment's first colon.
C22_MockValueByFirstMatchingRule ==
    /\ mock_args.called => FollowsRuleOrder(mock_args.list, args_input)
    /\ call_args.called => FollowsRuleOrder(call_args.list, args_input)

\* a type naming both bool and an address, and a fragment with two colons
C22_Witness ==
    /\ call_args.called
    /\ args_input = <<"x", ":", " ", "bool", " ", "ContractAddress", ",",
                      "x", ":", "bool", ":", "felt">>
    /\ call_args.list = << <<"x", "=", "owner_address">>, <<"x", "=", "123">> >>
    /\ mock_args.list = << <<"x", " = ", "owner_address">>,
                           <<"x", " = ", "123">> >>

\* C30: generate_function_args and generate_call_args agree on every
\* argument string: the same number of entries, in the same order, with the
\* same parameter names and mock values, differing only in the formatting of
\* the assignment, and both drop exactly the fragments without a colon.
C30_ArgListsAgree ==
    mock_args.called /\ call_args.called =>
        LET typed == TypedFragments(args_input)
        IN  /\ Len(mock_args.list) = Len(typed)
            /\ Len(call_args.list) = Len(typed)
            /\ \A k \in 1..Len(typed) :
                 LET prepared == mock_args.list[k]
                     passed == call_args.list[k]
                     name == ParamName(Strip(typed[k]))
                 IN  /\ Len(prepared) = Len(passed)
                     /\ prepared = name \o <<" = ", prepared[Len(prepared)]>>
                     /\ passed = name \o <<"=", passed[Len(passed)]>>
                     /\ prepared[Len(prepared)] = passed[Len(passed)]

\* a text whose first fragment has no colon and whose second is typed
C30_Witness ==
    /\ mock_args.called
    /\ call_args.called
    /\ args_input = <<" ", "a", ",", " ", "amount", ":", " ", "u256">>
    /\ mock_args.list = << <<"amount", " = ", "123">> >>
    /\ call_args.list = << <<"amount", "=", "123">> >>
    /\ mock_args.text = <<"# ", "amount", " = ", "123">>
    /\ call_args.text = <<"amount", "=", "123">>

\* the contract fixture has returned or raised
FixtureFinished == spc \in {"test", "done"}

\* the selected test has run against a deployed contract
RanOnContract(kind) ==
    /\ spc = "done"
    /\ contract_fixture.outcome = "value"
    /\ generated[selected].kind = kind

\* C23: the generated contract fixture tries three deployment shapes in a
\* fixed order (with constructor calldata; without it; with the alternate
\* path spelling): shape 2 is attempted only if shape 1 raised, shape 3 only
\* if shapes 1 and 2 both raised, the fixture returns the result of the first
\* attempt that does not raise, and it raises only if all three raise.
C23_DeploymentFallbackOrder ==
    LET raises(k) == instance.deploy[k] = "raises"
        tried == Len(attempts)
    IN  /\ tried <= 3
        /\ tried >= 1 =>
             attempts[1] = [source |-> "./src/contract.cairo",
                            constructor_calldata |-> TRUE]
        /\ tried >= 2 =>
             /\ raises(1)
             /\ attempts[2] = [source |-> "./src/contract.cairo",
                               constructor_calldata |-> FALSE]
        /\ tried = 3 =>
             /\ raises(1) /\ raises(2)
             /\ attempts[3] = [source |-> "src/contract.cairo",
                               constructor_calldata |-> FALSE]
        /\ FixtureFinished =>
             /\ contract_fixture.outcome \in {"value", "raised"}
             /\ contract_fixture.outcome = "raised"
                  <=> raises(1) /\ raises(2) /\ raises(3)
             /\ contract_fixture.outcome = "value" =>
                  /\ ~raises(tried)
                  /\ \A k \in 1..(tried - 1) : raises(k)
                  /\ contract_fixture.reason = attempts[tried].source

\* the second call returned the contract although the third would have too
C23_Witness ==
    /\ FixtureFinished
    /\ instance.deploy = <<"raises", "ok", "ok">>
    /\ Len(attempts) = 2
    /\ contract_fixture = Value("./src/contract.cairo")

\* C24: on a contract exposing get_counter and increment_counter, the
\* generated state-consistency test passes only if the value read after two
\* increment_counter invocations equals the value read before them plus 2,
\* and fails otherwise.
C24_PassesOnlyOnDeltaOfTwo ==
    /\ RanOnContract("test_contract_state_consistency")
    /\ hasattr(instance, "get_counter")
    /\ hasattr(instance, "increment_counter")
    /\ instance.call = "returns"
    => /\ verdict = "passed" => instance.step + instance.step = 2
       /\ instance.step + instance.step # 2 => verdict = "failed"

\* C25: an edge-case block is emitted for a function exactly when its name
\* is transfer, mint or increment_by, immediately after that function's
\* basic-call block.  Run on a contract whose nominal call returns, the
\* blocks of transfer and mint then make a zero-amount call and pass exactly
\* when it raises; the block of increment_by makes no zero-amount call and
\* passes whatever a zero amount would do.  A block whose nominal call raises
\* passes without reaching the zero-amount call.
C25_ZeroAmountOnlyForTransferAndMint ==
    /\ generated # <<>> /\ generated[1].kind = "basic_call" =>
         /\ Len(generated) = 2
              <=> generated[1].func_name \in {"transfer", "mint", "increment_by"}
         /\ Len(generated) \in {1, 2}
         /\ Len(generated) = 2 =>
              /\ generated[2].kind = "edge_cases"
              /\ generated[2].func_name = generated[1].func_name
    /\ RanOnContract("edge_cases") =>
         LET name == generated[selected].func_name
             nominal == hasattr(instance, name) /\ instance.call # "raises"
         IN  /\ nominal /\ name \in {"transfer", "mint"} =>
                  (verdict = "passed" <=> instance.zero = "raises")
             /\ nominal /\ name \in {"transfer", "mint"} =>
                  (verdict = "failed" <=> instance.zero = "returns")
             /\ nominal /\ name = "increment_by" => verdict = "passed"
             /\ ~nominal => verdict = "passed"

\* the edge-case test of increment_by passed on a contract that accepts a
\* zero amount
C25_Witness ==
    /\ RanOnContract("edge_cases")
    /\ generated[selected].func_name = "increment_by"
    /\ hasattr(instance, "increment_by")
    /\ instance.call = "returns"
    /\ instance.zero = "returns"
    /\ verdict = "passed"

\* C25 as stated: every edge-case block exercises a nominal call followed by
\* a zero-amount call that is expected to fail.
C25_EveryBlockExpectsZeroAmountFailure ==
    /\ RanOnContract("edge_cases")
    /\ hasattr(instance, generated[selected].func_name)
    /\ instance.call # "raises"
    => (verdict = "passed" <=> instance.zero = "raises")

\* C27: a generated basic-call test passes whenever the deployed contract has
\* an attribute with the function's name, even if the call or invocation
\* raises or returns None, and fails exactly when the attribute is absent.
C27_BasicCallPassesIffExposed ==
    RanOnContract("basic_call") =>
        LET exposed == generated[selected].func_name # instance.hidden
        IN  /\ verdict = "passed" <=> exposed
            /\ verdict = "failed" <=> ~exposed

\* a basic-call test passed although the invocation raised
C27_Witness ==
    /\ RanOnContract("basic_call")
    /\ generated[selected].func_name = "transfer"
    /\ instance.hidden = "none"
    /\ instance.call = "raises"
    /\ verdict = "passed"

\* C26: when CONTRACT_NAME is unset or empty the contract_module fixture
\* skips without attempting any load; otherwise the module is loaded from
\* /app/contracts/{CONTRACT_NAME}/src/{basename}.py, where basename is
\* CONTRACT_MODULE if that variable is set and non-empty and "contract"
\* otherwise.
C26_ContractSelectedByEnvironment ==
    LET name == world.CONTRACT_NAME
        module == world.CONTRACT_MODULE
        missing(v) == v = NotSet \/ v = ""
    IN  /\ missing(name) =>
             /\ loaded = <<>>
             /\ cache["contract_module"] \in
                    {Unset, Skipped("No CONTRACT_NAME environment variable set")}
             /\ \A t \in TemplateTests :
                    HasRun(t) =>
                        report[t] = Skipped("No CONTRACT_NAME environment variable set")
        /\ ~missing(name) /\ tpc > 1 =>
             /\ ~missing(module) =>
                    loaded = <<"/app/contracts/" \o name \o "/src/" \o module \o ".py">>
             /\ missing(module) =>
                    loaded = <<"/app/contracts/" \o name \o "/src/contract.py">>

\* the session loaded the module named by CONTRACT_MODULE, once
C26_Witness ==
    /\ SessionFinished
    /\ world.CONTRACT_NAME = "counter"
    /\ world.CONTRACT_MODULE = "token"
    /\ loaded = <<"/app/contracts/counter/src/token.py">>

\* C28: whenever run_tests returns normally (it logs "TEAL analysis
\* completed" without raising), the artifact {contract_name}-teal.log has
\* been written under output_dir during that run.
C28_TealLogWrittenOnReturn ==
    pc = "returned" => "teal.log" \in files

\* the text declares fn name( with a parameter list that starts with a word
DeclaresModernWithParameters(t, name) ==
    \E i \in 1..(Len(t) - 4) :
        /\ t[i] = "fn" /\ t[i + 2] = name /\ t[i + 3] = "("
        /\ IsWord(t[i + 4])

\* C29: every record produced from a modern-pattern match has visibility
\* "external" and an empty argument string, whatever parameters the
\* declaration has; the basic-call block of such a function calls it with no
\* arguments, and such a function takes the read-only path only through its
\* name, never through its visibility.
C29_ModernRecordsExternalWithoutArgs ==
    (file.readable /\ Parsed) =>
        LET modern == ModernDeclarations
            blocks == BasicCalls(output)
        IN  \A k \in 1..Len(modern) :
                /\ functions[k].func_name = modern[k].func_name
                /\ functions[k].func_type = "external"
                /\ functions[k].args = <<>>
                /\ FunctionTestsEmitted =>
                       /\ blocks[k].func_name = modern[k].func_name
                       /\ blocks[k].func_type = "external"
                       /\ blocks[k].call_args = <<>>
                       /\ blocks[k].prep = <<"# No arguments needed">>
                       /\ Dispatch(blocks[k]) = "call"
                              <=> blocks[k].func_name \in ReadOnlyByName

\* a modern transfer(to: ContractAddress, amount: u256) is called with no
\* arguments, and a modern get_counter is read through .call() by its name
C29_Witness ==
    /\ gpc = "done"
    /\ DeclaresModernWithParameters(file.text, "transfer")
    /\ Len(ModernDeclarations) = 2
    /\ \E k \in 1..2 :
           /\ functions[k].func_name = "transfer"
           /\ functions[k].args = <<>>
           /\ BasicCalls(written)[k].func_name = "transfer"
           /\ BasicCalls(written)[k].call_args = <<>>
           /\ Dispatch(BasicCalls(written)[k]) = "invoke"
    /\ \E k \in 1..2 :
           /\ functions[k].func_name = "get_counter"
           /\ functions[k].func_type = "external"
           /\ Dispatch(BasicCalls(written)[k]) = "call"

====
